---- MODULE Spec2Model ----
(***************************************************************************)
(* A model of buildbot's command-line runner (master/buildbot/scripts/     *)
(* runner.py) and of the try client's job file (exercised by               *)
(* master/buildbot/test/unit/test_clients_tryclient.py):                   *)
(*   - doTryServer, the two-phase (tmp -> new) job spool delivery;         *)
(*   - stop, the signal-and-poll shutdown of the buildmaster;              *)
(*   - OptionsWithOptionsFile / TryOptions, the three-tier option values;  *)
(*   - createJobfile, the versioned netstring job file.                    *)
(*   - run and restart, the commands start, stop and restart;              *)
(*   - loadOptionsFile, the search for the .buildbot/options file.         *)
(* Text is modelled as sequences of one-character strings.                 *)
(***************************************************************************)
EXTENDS Integers, Sequences, FiniteSets, TLC

VARIABLES
    \* ---- doTryServer: the spool and the runs that deliver into it
    clock,      \* time.time(), counted in ticks of 1/TicksPerSecond second
    inodes,     \* the files' contents, indexed by inode number
    tmpdir,     \* jobdir/tmp: file name -> inode number
    newdir,     \* jobdir/new: file name -> inode number
    runs,       \* each doTryServer run: its position and its locals
    \* ---- stop: the installation, the daemon and one call of stop
    tac,        \* basedir/buildbot.tac: "missing", "other" or "buildmaster"
    pidfile,    \* basedir/twistd.pid: "absent", "unreadable", "garbage"
                \* (no number in it) or "pid"
    proc,       \* the process that has the recorded pid: "daemon" (the
                \* buildmaster), "foreign" (another user's) or "none"
    stopCfg,    \* the arguments of stop: [wait, quiet, signame]
    stopPc,     \* the position of the call in stop
    timer,      \* the local variable timer of stop
    events,     \* the system calls of the call, in order
    printed,    \* the lines the call has printed
    outcome,    \* how the call ended: "" while it runs
    \* ---- OptionsWithOptionsFile: one instance built and parsed
    optCls,     \* the class of the instance: "TryOptions" or "UserOptions"
    optfile,    \* what loadOptionsFile() returns: names -> values
    argv,       \* the command line, as <<option, value>> pairs
    classOptParameters, \* the class attribute cls.optParameters
    oldOptParameters,   \* the local old_optParameters of __init__
    opts,       \* the instance's option values, self[...]
    argi,       \* the index of the next command-line pair to dispatch
    optPc,      \* the position in construction and parsing
    \* ---- createJobfile: one request encoded and decoded
    req,        \* the arguments of createJobfile, as a record
    jobfile,    \* the job file createJobfile returns
    decoded,    \* the request read back from the job file
    encPc,      \* the position: "new", "encoded", "decoded"
    \* ---- run and restart: one command of the command line
    command,    \* the subcommand: "start", "stop" or "restart"
    cmdPc,      \* the position of the command in run and restart
    exitStatus, \* the exit status of the command, NotExited while it runs
    \* ---- loadOptionsFile: the directories and one call
    platform,   \* runtime.platformType: "posix" or "win32"
    depth,      \* the number of parents between os.getcwd() and the root
    dirs,       \* the .buildbot candidates: candidate -> what is there
    searchpath, \* the local searchpath: candidates, nearest first
    localDict,  \* the local localDict: names -> values
    filesRead,  \* the candidates whose options file the call has opened
    loadPrinted,\* the lines the call has printed
    loadPc      \* the position of the call: "walk", "search", "strip",
                \* "returned", or "ValueError", "raised" when it raised

spoolVars == <<clock, inodes, tmpdir, newdir, runs>>

stopVars == <<tac, pidfile, proc, stopCfg, stopPc, timer, events, printed, outcome>>

optVars == <<optCls, optfile, argv, classOptParameters, oldOptParameters, opts,
             argi, optPc>>

encVars == <<req, jobfile, decoded, encPc>>

cmdVars == <<command, cmdPc, exitStatus>>

loadVars == <<platform, depth, dirs, searchpath, localDict, filesRead,
              loadPrinted, loadPc>>

vars == <<spoolVars, stopVars, optVars, encVars, cmdVars, loadVars>>

\* what each component leaves alone
notSpool == <<stopVars, optVars, encVars, cmdVars, loadVars>>

notStop == <<spoolVars, optVars, encVars, cmdVars, loadVars>>

notOpt == <<spoolVars, stopVars, encVars, cmdVars, loadVars>>

notEnc == <<spoolVars, stopVars, optVars, cmdVars, loadVars>>

\* run and restart change their own variables and those of stop
notCmd == <<spoolVars, optVars, encVars, loadVars>>

notLoad == <<spoolVars, stopVars, optVars, encVars, cmdVars>>

(***************************************************************************)
(* Text helpers                                                            *)
(***************************************************************************)

DecDigits == <<"0", "1", "2", "3", "4", "5", "6", "7", "8", "9">>

HexDigits == DecDigits \o <<"a", "b", "c", "d", "e", "f">>

RECURSIVE DecStr(_)
\* "%d" % n and str(n) for n >= 0: the decimal digits, most significant first
DecStr(n) ==
    IF n < 10 THEN <<DecDigits[n + 1]>>
    ELSE DecStr(n \div 10) \o <<DecDigits[(n % 10) + 1]>>

RECURSIVE SumSeq(_)
SumSeq(s) == IF s = <<>> THEN 0 ELSE Head(s) + SumSeq(Tail(s))

(***************************************************************************)
(* doTryServer (runner.py 1109-1134)                                       *)
(*                                                                         *)
(* A payload is a sequence of chunks: what one write(2) call transfers. A  *)
(* file is an inode; a directory maps names to inodes, so that rename      *)
(* moves the entry and an open descriptor follows the inode.               *)
(***************************************************************************)

\* the number of concurrent or successive doTryServer runs
NumRuns == 2

\* clock ticks per second: time.time() has sub-second resolution
TicksPerSecond == 2

\* the clock's last tick
MaxClock == 3

Runs == 1..NumRuns

\* the job files submitted on stdin; <<1, 2>> and <<2, 1>> share their digest
Payloads == {<<1>>, <<1, 2>>, <<2, 1>>}

\* m.update(job); m.hexdigest(): a digest that depends on the content alone.
\* MD5 is abstracted to a one-digit checksum: like MD5 it is a function of
\* the bytes and not injective.
HexDigest(job) == <<HexDigits[(SumSeq(job) % 16) + 1]>>

\* timestring = "%d" % time.time(): the whole seconds, in decimal
TimeString(t) == DecStr(t \div TicksPerSecond)

\* fn = "%s-%s" % (timestring, jobhash)
FileName(t, job) == TimeString(t) \o <<"-">> \o HexDigest(job)

NoFd == 0

IdleRun == [pc |-> "idle", job |-> <<>>, fn |-> <<>>, fd |-> NoFd, off |-> 0,
            changedNew |-> FALSE]

\* a directory with the entry name -> ino added or replaced
Link(dir, name, ino) ==
    [n \in DOMAIN dir \cup {name} |-> IF n = name THEN ino ELSE dir[n]]

\* a directory without the entry of name
Unlink(dir, name) == [n \in DOMAIN dir \ {name} |-> dir[n]]

RECURSIVE Zeros(_)
Zeros(k) == IF k <= 0 THEN <<>> ELSE <<0>> \o Zeros(k - 1)

\* write(2) of one chunk at offset off: overwrites in place, extends at the
\* end, and leaves a hole of zeros when the file is shorter than the offset
WriteAt(content, off, chunk) ==
    IF off < Len(content) THEN [content EXCEPT ![off + 1] = chunk]
    ELSE content \o Zeros(off - Len(content)) \o <<chunk>>

\* what a consumer that lists and reads jobdir/new sees: name -> content
NewView(dir, files) == [n \in DOMAIN dir |-> files[dir[n]]]

\* whether the step changes what is visible in jobdir/new
ChangesNew == NewView(newdir', inodes') # NewView(newdir, inodes)

\* no call of stop is under way
StopIdle ==
    /\ tac = "buildmaster" /\ pidfile = "absent" /\ proc = "none"
    /\ stopCfg = [wait |-> FALSE, quiet |-> FALSE, signame |-> "TERM"]
    /\ stopPc = "idle" /\ timer = 0 /\ events = <<>> /\ printed = <<>>
    /\ outcome = ""

\* no options instance is being built
OptIdle ==
    /\ optCls = "TryOptions" /\ optfile = <<>> /\ argv = <<>>
    /\ classOptParameters = <<>> /\ oldOptParameters = <<>> /\ opts = <<>>
    /\ argi = 1 /\ optPc = "idle"

\* no job file is being made
EncIdle == req = <<>> /\ jobfile = <<>> /\ decoded = <<>> /\ encPc = "idle"

\* the exit status of a command that has not exited
NotExited == -1

\* no command of the command line is under way
CmdIdle == command = "none" /\ cmdPc = "idle" /\ exitStatus = NotExited

\* no call of loadOptionsFile is under way
LoadIdle ==
    /\ platform = "posix" /\ depth = 0 /\ dirs = <<>> /\ searchpath = <<>>
    /\ localDict = <<>> /\ filesRead = <<>> /\ loadPrinted = <<>>
    /\ loadPc = "idle"

SpoolInit ==
    /\ StopIdle
    /\ OptIdle
    /\ EncIdle
    /\ CmdIdle
    /\ LoadIdle
    /\ clock = 0
    /\ inodes = <<>>
    /\ tmpdir = <<>>
    /\ newdir = <<>>
    /\ runs = [p \in Runs |-> IdleRun]

\* time passes
Tick ==
    /\ UNCHANGED notSpool
    /\ clock < MaxClock
    /\ clock' = clock + 1
    /\ UNCHANGED <<inodes, tmpdir, newdir, runs>>

\* lines 1116-1131: read the job from stdin, take the time, name the file
Start(p) ==
    /\ UNCHANGED notSpool
    /\ runs[p].pc = "idle"
    /\ \E job \in Payloads :
        runs' = [runs EXCEPT ![p].pc = "named", ![p].job = job,
                             ![p].fn = FileName(clock, job)]
    /\ UNCHANGED <<clock, inodes, tmpdir, newdir>>

\* the staging step skipped: the file is opened in jobdir/new itself
OpenInNew(p) ==
    /\ UNCHANGED notSpool
    /\ runs[p].pc = "named"
    /\ UNCHANGED <<clock, tmpdir>>
    /\ inodes' = Append(inodes, <<>>)
    /\ newdir' = Link(newdir, runs[p].fn, Len(inodes) + 1)
    /\ runs' = [runs EXCEPT ![p].pc = "open", ![p].fd = Len(inodes) + 1]

\* line 1132: open(tmpfile, "w") creates the file, or truncates the one there
Open(p) ==
    /\ UNCHANGED notSpool
    /\ runs[p].pc = "named"
    /\ UNCHANGED <<clock, newdir>>
    /\ IF runs[p].fn \in DOMAIN tmpdir
       THEN /\ inodes' = [inodes EXCEPT ![tmpdir[runs[p].fn]] = <<>>]
            /\ tmpdir' = tmpdir
            /\ runs' = [runs EXCEPT ![p].pc = "open",
                                    ![p].fd = tmpdir[runs[p].fn],
                                    ![p].changedNew = @ \/ ChangesNew]
       ELSE /\ inodes' = Append(inodes, <<>>)
            /\ tmpdir' = Link(tmpdir, runs[p].fn, Len(inodes) + 1)
            /\ runs' = [runs EXCEPT ![p].pc = "open",
                                    ![p].fd = Len(inodes) + 1]

\* line 1133 and the close of the with block: the buffered job reaches the
\* file chunk by chunk, through the descriptor, wherever its inode is linked
Write(p) ==
    /\ UNCHANGED notSpool
    /\ runs[p].pc = "open"
    /\ UNCHANGED <<clock, tmpdir, newdir>>
    /\ IF runs[p].off < Len(runs[p].job)
       THEN /\ inodes' = [inodes EXCEPT ![runs[p].fd] =
                            WriteAt(@, runs[p].off, runs[p].job[runs[p].off + 1])]
            /\ runs' = [runs EXCEPT ![p].off = @ + 1,
                                    ![p].changedNew = @ \/ ChangesNew]
       ELSE /\ inodes' = inodes
            /\ runs' = [runs EXCEPT ![p].pc = "closed", ![p].fd = NoFd]

\* line 1134: os.rename(tmpfile, newfile) moves the entry in one step, and
\* raises OSError (ENOENT) when jobdir/tmp has no such entry
Rename(p) ==
    /\ UNCHANGED notSpool
    /\ runs[p].pc = "closed"
    /\ UNCHANGED <<clock, inodes>>
    /\ IF runs[p].fn \in DOMAIN tmpdir
       THEN /\ newdir' = Link(newdir, runs[p].fn, tmpdir[runs[p].fn])
            /\ tmpdir' = Unlink(tmpdir, runs[p].fn)
            /\ runs' = [runs EXCEPT ![p].pc = "done",
                                    ![p].changedNew = @ \/ ChangesNew]
       ELSE /\ UNCHANGED <<newdir, tmpdir>>
            /\ runs' = [runs EXCEPT ![p].pc = "enoent"]

\* an I/O error of the operating system (disk full, permission, ...) in the
\* open, a write or the rename: the exception leaves doTryServer, the with
\* block closes the file
Fail(p) ==
    /\ UNCHANGED notSpool
    /\ runs[p].pc \in {"named", "open", "closed"}
    /\ runs' = [runs EXCEPT ![p].pc = "failed", ![p].fd = NoFd]
    /\ UNCHANGED <<clock, inodes, tmpdir, newdir>>

SpoolNext ==
    \/ Tick
    \/ \E p \in Runs : Start(p)
    \/ \E p \in Runs : Open(p)
    \/ \E p \in Runs : Write(p)
    \/ \E p \in Runs : Rename(p)
    \/ \E p \in Runs : Fail(p)

SpoolSpec == SpoolInit /\ [][SpoolNext]_vars

(***************************************************************************)
(* Claims about doTryServer                                                *)
(***************************************************************************)

Started(p) == runs[p].pc # "idle"

\* the runs that have started use pairwise distinct file names
DistinctNames ==
    \A p, q \in Runs : (p # q /\ Started(p) /\ Started(q)) => runs[p].fn # runs[q].fn

\* two runs submit the same bytes within the same second, and no run was
\* stopped by an I/O error of the operating system
SameSubmission(p, q) ==
    /\ p # q /\ Started(p) /\ Started(q)
    /\ runs[p].job = runs[q].job /\ runs[p].fn = runs[q].fn
    /\ \A r \in Runs : runs[r].pc # "failed"

\* C1: while the runs' file names are pairwise distinct, every file of
\* jobdir/new holds exactly the whole payload of the run that named it, in
\* every state of every interleaving, failures included; partly written
\* files are in jobdir/tmp only.
C1_VisibleFilesComplete ==
    DistinctNames =>
        \A n \in DOMAIN newdir :
            \E p \in Runs : Started(p) /\ runs[p].fn = n
                            /\ inodes[newdir[n]] = runs[p].job

\* one run has delivered, another failed in the middle of its write and left
\* its partly written file in jobdir/tmp
C1_Witness ==
    /\ DistinctNames
    /\ \E p, q \in Runs :
        /\ runs[p].pc = "done" /\ runs[p].fn \in DOMAIN newdir
        /\ runs[q].pc = "failed" /\ runs[q].fn \in DOMAIN tmpdir
        /\ Len(inodes[tmpdir[runs[q].fn]]) \in 1..(Len(runs[q].job) - 1)

\* C8: with two runs that submit the same bytes in the same second, the
\* file of that name in jobdir/new never holds anything but the whole payload.
C8_CollisionNeverPartial ==
    \A p, q \in Runs :
        (SameSubmission(p, q) /\ runs[p].fn \in DOMAIN newdir)
            => inodes[newdir[runs[p].fn]] = runs[p].job

\* C9: with two runs that submit the same bytes in the same second, once
\* both have ended neither has raised an error, and the spool is as after one
\* such run: the whole payload in jobdir/new, nothing in jobdir/tmp.
C9_CollisionIdempotent ==
    \A p, q \in Runs :
        (SameSubmission(p, q) /\ runs[p].pc \in {"done", "enoent"}
                              /\ runs[q].pc \in {"done", "enoent"})
            => /\ runs[p].pc = "done" /\ runs[q].pc = "done"
               /\ runs[p].fn \in DOMAIN newdir
               /\ inodes[newdir[runs[p].fn]] = runs[p].job
               /\ runs[p].fn \notin DOMAIN tmpdir

\* C10: a run whose open, write or rename failed has raised the error and
\* none of its steps has added or changed anything visible in jobdir/new.
C10_FailedRunLeavesNewAlone ==
    \A p \in Runs : runs[p].pc \in {"failed", "enoent"} => ~runs[p].changedNew

(***************************************************************************)
(* stop (runner.py 620-659) and isBuildmasterDir (runner.py 66-74)         *)
(*                                                                         *)
(* One call of stop, a system call per step. The process that has the      *)
(* recorded pid may exit at any time, and once it is gone the pid may be   *)
(* taken by another user's process, which os.kill answers with EPERM.      *)
(***************************************************************************)

\* while timer < 10: the number of liveness probes of one call
PollAttempts == 10

SigNames == {"TERM", "KILL"}

\* a check that is content with any buildbot.tac
isBuildmasterDirAnyTac(t) == t # "missing"

\* isBuildmasterDir: buildbot.tac is a file and holds Application('buildmaster')
isBuildmasterDir(t) == t = "buildmaster"

\* the errno of os.kill(pid, sig), 0 when the signal is accepted
KillErrno(pr) == CASE pr = "daemon"  -> 0
                   [] pr = "none"    -> 3     \* ESRCH
                   [] pr = "foreign" -> 1     \* EPERM

\* every error of the signal send swallowed
SwallowedAny(errno) == TRUE

\* line 640: the only error of the signal send that stop swallows
Swallowed(errno) == errno = 3

\* a loop condition one probe too generous
KeepPollingInclusive(t) == t <= PollAttempts

\* line 648: while timer < 10
KeepPolling(t) == t < PollAttempts

Say(line) == IF stopCfg.quiet THEN printed ELSE Append(printed, line)

EndStop(how) ==
    /\ stopPc' = "done"
    /\ outcome' = how

\* no doTryServer run is under way
SpoolIdle ==
    /\ clock = 0 /\ inodes = <<>> /\ tmpdir = <<>> /\ newdir = <<>>
    /\ runs = [p \in Runs |-> IdleRun]

StopInit ==
    /\ SpoolIdle
    /\ OptIdle
    /\ EncIdle
    /\ CmdIdle
    /\ LoadIdle
    /\ tac \in {"missing", "other", "buildmaster"}
    /\ pidfile \in {"absent", "unreadable", "garbage", "pid"}
    /\ proc \in {"daemon", "none"}
    /\ stopCfg \in [wait : BOOLEAN, quiet : BOOLEAN, signame : SigNames]
    /\ stopPc = "check" /\ timer = 0 /\ events = <<>> /\ printed = <<>>
    /\ outcome = ""

\* lines 625-627: refuse a directory that is no buildmaster's
StopCheckDir ==
    /\ stopPc = "check"
    /\ UNCHANGED notStop
    /\ UNCHANGED <<tac, pidfile, proc, stopCfg, timer, events>>
    /\ IF isBuildmasterDir(tac)
       THEN /\ stopPc' = "chdir"
            /\ UNCHANGED <<printed, outcome>>
       ELSE /\ printed' = printed
                \o (IF tac = "missing" THEN <<"no buildbot.tac">> ELSE <<>>)
                \o <<"not a buildmaster directory">>
            /\ EndStop("exit1")

\* line 629: os.chdir(basedir)
StopChdir ==
    /\ stopPc = "chdir"
    /\ UNCHANGED notStop
    /\ UNCHANGED <<tac, pidfile, proc, stopCfg, timer, printed, outcome>>
    /\ events' = Append(events, "chdir")
    /\ stopPc' = "readpid"

\* lines 630-634: read the pid, or raise BuildbotNotRunningError
StopReadPid ==
    /\ stopPc = "readpid"
    /\ UNCHANGED notStop
    /\ UNCHANGED <<tac, pidfile, proc, stopCfg, timer, printed>>
    /\ events' = Append(events, "open twistd.pid")
    /\ IF pidfile = "pid"
       THEN stopPc' = "kill" /\ UNCHANGED outcome
       ELSE EndStop("BuildbotNotRunningError")

\* lines 635-646: send the signal; without wait, return
StopSignal ==
    /\ stopPc = "kill"
    /\ UNCHANGED notStop
    /\ UNCHANGED <<tac, pidfile, proc, stopCfg, timer>>
    /\ events' = Append(events, "kill SIG" \o stopCfg.signame)
    /\ IF KillErrno(proc) # 0 /\ ~Swallowed(KillErrno(proc))
       THEN EndStop("OSError") /\ UNCHANGED printed
       ELSE IF ~stopCfg.wait
       THEN /\ printed' = Say("sent SIG" \o stopCfg.signame \o " to process")
            /\ EndStop("sent")
       ELSE stopPc' = "nap" /\ UNCHANGED <<printed, outcome>>

\* line 647: time.sleep(0.1)
StopNap ==
    /\ stopPc = "nap"
    /\ UNCHANGED notStop
    /\ UNCHANGED <<tac, pidfile, proc, stopCfg, timer, printed, outcome>>
    /\ events' = Append(events, "sleep 0.1")
    /\ stopPc' = "poll"

\* a probe that takes only 'no such process' for the death of the process
\* and raises any other error
StopProbeEsrchOnly ==
    /\ stopPc = "poll"
    /\ KeepPolling(timer)
    /\ UNCHANGED notStop
    /\ UNCHANGED <<tac, pidfile, proc, stopCfg, timer>>
    /\ IF KillErrno(proc) = 0
       THEN /\ events' = Append(events, "kill 0: ok")
            /\ stopPc' = "sleep"
            /\ UNCHANGED <<printed, outcome>>
       ELSE /\ events' = Append(events, "kill 0: OSError")
            /\ IF Swallowed(KillErrno(proc))
               THEN printed' = Say("buildbot process is dead") /\ EndStop("dead")
               ELSE UNCHANGED printed /\ EndStop("OSError")

\* lines 648-655: probe with signal 0; any OSError ends the wait
StopProbe ==
    /\ stopPc = "poll"
    /\ KeepPolling(timer)
    /\ UNCHANGED notStop
    /\ UNCHANGED <<tac, pidfile, proc, stopCfg, timer>>
    /\ IF KillErrno(proc) = 0
       THEN /\ events' = Append(events, "kill 0: ok")
            /\ stopPc' = "sleep"
            /\ UNCHANGED <<printed, outcome>>
       ELSE /\ events' = Append(events, "kill 0: OSError")
            /\ printed' = Say("buildbot process is dead")
            /\ EndStop("dead")

\* a loop that sends the signal again after each sleep
StopSleepResend ==
    /\ stopPc = "sleep"
    /\ UNCHANGED notStop
    /\ UNCHANGED <<tac, pidfile, proc, stopCfg, printed, outcome>>
    /\ timer' = timer + 1
    /\ events' = Append(events, "sleep 1")
    /\ stopPc' = IF timer < 1 THEN "kill" ELSE "poll"

\* lines 656-657: timer += 1; time.sleep(1)
StopSleep ==
    /\ stopPc = "sleep"
    /\ UNCHANGED notStop
    /\ UNCHANGED <<tac, pidfile, proc, stopCfg, printed, outcome>>
    /\ timer' = timer + 1
    /\ events' = Append(events, "sleep 1")
    /\ stopPc' = "poll"

\* lines 658-659: the loop ran out
StopTimeout ==
    /\ stopPc = "poll"
    /\ ~KeepPolling(timer)
    /\ UNCHANGED notStop
    /\ UNCHANGED <<tac, pidfile, proc, stopCfg, timer, events>>
    /\ printed' = Say("never saw process go away")
    /\ EndStop("timeout")

\* the process that has the pid exits, of itself or on the signal
ProcExit ==
    /\ stopPc # "done"
    /\ proc # "none"
    /\ proc' = "none"
    /\ UNCHANGED notStop
    /\ UNCHANGED <<tac, pidfile, stopCfg, stopPc, timer, events, printed, outcome>>

\* the free pid is given to a process of another user
PidReuse ==
    /\ stopPc # "done"
    /\ proc = "none"
    /\ proc' = "foreign"
    /\ UNCHANGED notStop
    /\ UNCHANGED <<tac, pidfile, stopCfg, stopPc, timer, events, printed, outcome>>

StopNext ==
    \/ StopCheckDir
    \/ StopChdir
    \/ StopReadPid
    \/ StopSignal
    \/ StopNap
    \/ StopProbe
    \/ StopSleep
    \/ StopTimeout
    \/ ProcExit
    \/ PidReuse

StopSpec == StopInit /\ [][StopNext]_vars

(***************************************************************************)
(* run (runner.py 1394-1452) and restart (runner.py 662-677)               *)
(*                                                                         *)
(* One of the commands start, stop and restart. The call of stop that the  *)
(* command makes takes the steps of stop above; start itself               *)
(* (buildbot.scripts.startup) is the event "start" and nothing more.       *)
(***************************************************************************)

Commands == {"start", "stop", "restart"}

\* what the caller of stop gets when the call ends: the value returned
\* (lines 646, 655 and the end of the function return None) or the exception
ReturnOf(how) ==
    CASE how \in {"sent", "dead", "timeout"} -> "None"
      [] how = "exit1" -> "SystemExit(1)"
      [] OTHER -> how

\* what the caller of the call of stop under way has got, "" while it runs
Returned == IF stopPc = "done" THEN ReturnOf(outcome) ELSE ""

\* the exit status of a command whose call of stop raised exc and the
\* command did not catch it: the argument of sys.exit, or 1 after a traceback
StatusOfUncaught(exc) == 1

CmdInit ==
    /\ SpoolIdle
    /\ OptIdle
    /\ EncIdle
    /\ LoadIdle
    /\ tac \in {"missing", "other", "buildmaster"}
    /\ pidfile \in {"absent", "unreadable", "garbage", "pid"}
    /\ proc \in {"daemon", "none"}
    /\ stopCfg \in [wait : {FALSE}, quiet : BOOLEAN, signame : {"TERM"}]
    /\ stopPc = "idle" /\ timer = 0 /\ events = <<>> /\ printed = <<>>
    /\ outcome = ""
    /\ command \in Commands
    /\ cmdPc = "begin"
    /\ exitStatus = NotExited

\* the command ends with sys.exit(status)
Exit(status) == cmdPc' = "exited" /\ exitStatus' = status

\* run, lines 1411-1417: the command start checks the directory
RunCheckDir ==
    /\ command = "start" /\ cmdPc = "begin"
    /\ UNCHANGED notCmd
    /\ UNCHANGED <<tac, pidfile, proc, stopCfg, stopPc, timer, events, outcome,
                   command>>
    /\ IF isBuildmasterDir(tac)
       THEN cmdPc' = "start" /\ UNCHANGED <<printed, exitStatus>>
       ELSE /\ printed' = printed
                \o (IF tac = "missing" THEN <<"no buildbot.tac">> ELSE <<>>)
                \o <<"not a buildmaster directory">>
            /\ Exit(1)

\* restart, lines 663-668: restart checks the directory
RestartCheckDir ==
    /\ command = "restart" /\ cmdPc = "begin"
    /\ UNCHANGED notCmd
    /\ UNCHANGED <<tac, pidfile, proc, stopCfg, stopPc, timer, events, outcome,
                   command>>
    /\ IF isBuildmasterDir(tac)
       THEN cmdPc' = "callstop" /\ UNCHANGED <<printed, exitStatus>>
       ELSE /\ printed' = printed
                \o (IF tac = "missing" THEN <<"no buildbot.tac">> ELSE <<>>)
                \o <<"not a buildmaster directory">>
            /\ Exit(1)

\* run line 1422 and restart line 672: stop(so, wait=True)
CallStop ==
    /\ \/ command = "stop" /\ cmdPc = "begin"
       \/ command = "restart" /\ cmdPc = "callstop"
    /\ UNCHANGED notCmd
    /\ UNCHANGED <<tac, pidfile, proc, timer, events, printed, outcome,
                   command, exitStatus>>
    /\ stopCfg' = [stopCfg EXCEPT !.wait = TRUE]
    /\ stopPc' = "check"
    /\ cmdPc' = "instop"

\* a command stop that fails when the buildmaster is not running
RunStopEndedFails ==
    /\ command = "stop" /\ cmdPc = "instop" /\ stopPc = "done"
    /\ UNCHANGED notCmd
    /\ UNCHANGED <<tac, pidfile, proc, stopCfg, stopPc, timer, events, outcome,
                   command>>
    /\ IF Returned = "None"
       THEN UNCHANGED printed /\ Exit(0)
       ELSE UNCHANGED printed /\ Exit(StatusOfUncaught(Returned))

\* run, lines 1421-1426 and 1452: the call of stop has ended
RunStopEnded ==
    /\ command = "stop" /\ cmdPc = "instop" /\ stopPc = "done"
    /\ UNCHANGED notCmd
    /\ UNCHANGED <<tac, pidfile, proc, stopCfg, stopPc, timer, events, outcome,
                   command>>
    /\ IF Returned = "BuildbotNotRunningError"
       THEN printed' = Say("buildmaster not running") /\ Exit(0)
       ELSE IF Returned = "None"
       THEN UNCHANGED printed /\ Exit(0)
       ELSE UNCHANGED printed /\ Exit(StatusOfUncaught(Returned))

\* a restart that lets the not-running condition through
RestartStopEndedNoCatch ==
    /\ command = "restart" /\ cmdPc = "instop" /\ stopPc = "done"
    /\ UNCHANGED notCmd
    /\ UNCHANGED <<tac, pidfile, proc, stopCfg, stopPc, timer, events, outcome,
                   command>>
    /\ IF Returned = "None"
       THEN /\ printed' = Say("now restarting buildbot process..")
            /\ cmdPc' = "start"
            /\ UNCHANGED exitStatus
       ELSE UNCHANGED printed /\ Exit(StatusOfUncaught(Returned))

\* a restart that gives up when stop has timed out
RestartStopEndedAbortsOnTimeout ==
    /\ command = "restart" /\ cmdPc = "instop" /\ stopPc = "done"
    /\ UNCHANGED notCmd
    /\ UNCHANGED <<tac, pidfile, proc, stopCfg, stopPc, timer, events, outcome,
                   command>>
    /\ IF Returned \in {"None", "BuildbotNotRunningError"} /\ outcome # "timeout"
       THEN /\ printed' = Say("now restarting buildbot process..")
            /\ cmdPc' = "start"
            /\ UNCHANGED exitStatus
       ELSE UNCHANGED printed /\ Exit(StatusOfUncaught(Returned))

\* restart, lines 671-676: the call of stop has ended
RestartStopEnded ==
    /\ command = "restart" /\ cmdPc = "instop" /\ stopPc = "done"
    /\ UNCHANGED notCmd
    /\ UNCHANGED <<tac, pidfile, proc, stopCfg, stopPc, timer, events, outcome,
                   command>>
    /\ IF Returned \in {"None", "BuildbotNotRunningError"}
       THEN /\ printed' = Say("now restarting buildbot process..")
            /\ cmdPc' = "start"
            /\ UNCHANGED exitStatus
       ELSE UNCHANGED printed /\ Exit(StatusOfUncaught(Returned))

\* run line 1419 and restart line 677: start(config); then run's sys.exit(0),
\* unless start has ended the process with a status of its own
InvokeStart ==
    /\ cmdPc = "start"
    /\ UNCHANGED notCmd
    /\ UNCHANGED <<tac, pidfile, proc, stopCfg, stopPc, timer, printed, outcome,
                   command>>
    /\ events' = Append(events, "start")
    /\ \E status \in {0, 1} : Exit(status)

CmdNext ==
    \/ RunCheckDir
    \/ RestartCheckDir
    \/ CallStop
    \/ RunStopEnded
    \/ RestartStopEnded
    \/ InvokeStart
    \/ StopCheckDir
    \/ StopChdir
    \/ StopReadPid
    \/ StopSignal
    \/ StopNap
    \/ StopProbe
    \/ StopSleep
    \/ StopTimeout
    \/ ProcExit
    \/ PidReuse

CmdSpec == CmdInit /\ [][CmdNext]_vars

(***************************************************************************)
(* Claims about stop                                                       *)
(***************************************************************************)

IsProbe(e) == e \in {"kill 0: ok", "kill 0: OSError"}

\* the liveness probes of the call, in order
Probes == SelectSeq(events, IsProbe)

RECURSIVE IndexOfSignal(_, _)
\* the position of the signal send in the events from position i on, 0 if none
IndexOfSignal(es, i) ==
    IF i > Len(es) THEN 0
    ELSE IF es[i] \in {"kill SIG" \o n : n \in SigNames} THEN i
    ELSE IndexOfSignal(es, i + 1)

\* what the call did after it sent the signal
AfterSignal ==
    IF IndexOfSignal(events, 1) = 0 THEN <<>>
    ELSE SubSeq(events, IndexOfSignal(events, 1) + 1, Len(events))

RECURSIVE AliveRounds(_)
\* k probes that found the process alive, each followed by a sleep of 1 s
AliveRounds(k) ==
    IF k = 0 THEN <<>> ELSE <<"kill 0: ok", "sleep 1">> \o AliveRounds(k - 1)

\* C2: stop(wait=True) probes at most 10 times, a sleep of one second after
\* each probe that finds the process alive. A probe that fails ends the call
\* on the spot with the outcome "dead": it is probe k of 1..10, k - 1 alive
\* probes before it and nothing after it. Ten alive probes end the call with
\* the outcome "timeout", and there is no eleventh probe.
C2_BoundedPolling ==
    /\ Len(Probes) <= 10
    /\ (Probes # <<>> /\ Probes[Len(Probes)] = "kill 0: OSError")
           => stopPc = "done" /\ outcome = "dead"
    /\ outcome = "dead" =>
           \E k \in 1..10 :
               AfterSignal = <<"sleep 0.1">> \o AliveRounds(k - 1)
                                \o <<"kill 0: OSError">>
    /\ outcome = "timeout" => AfterSignal = <<"sleep 0.1">> \o AliveRounds(10)
    /\ (stopPc = "done" /\ Len(Probes) = 10 /\ Probes[10] = "kill 0: ok")
           => outcome = "timeout"

\* the process is found gone by the tenth and last probe
C2_Witness ==
    /\ stopCfg.wait /\ outcome = "dead"
    /\ Len(Probes) = 10

(***************************************************************************)
(* Claims about restart, the command line and the steps of stop            *)
(***************************************************************************)

IsSignal(e) == e \in {"kill SIG" \o n : n \in SigNames}

IsStart(e) == e = "start"

\* the signal sends and the invocations of start so far
Signals == SelectSeq(events, IsSignal)

Starts == SelectSeq(events, IsStart)

\* C11: restart on a valid installation runs stop with wait to its end
\* before it invokes start, never the other way round: start is the last
\* event, after a call of stop that waited and ended as dead, as timeout or
\* with BuildbotNotRunningError. When stop raises BuildbotNotRunningError,
\* restart swallows it and invokes start exactly once.
C11_RestartStopsThenStarts ==
    (command = "restart" /\ isBuildmasterDir(tac)) =>
        /\ Len(Starts) <= 1
        /\ Starts # <<>> =>
               /\ events[Len(events)] = "start"
               /\ stopPc = "done" /\ stopCfg.wait
               /\ outcome \in {"dead", "timeout", "BuildbotNotRunningError"}
        /\ (stopPc \notin {"idle", "done"}) => Starts = <<>>
        /\ (cmdPc = "exited" /\ outcome = "BuildbotNotRunningError") =>
               Len(Starts) = 1
        /\ (cmdPc = "exited" /\ Returned = "None") => Len(Starts) = 1

\* restart has started the buildmaster after stop found no pid file
C11_Witness ==
    /\ command = "restart" /\ cmdPc = "exited"
    /\ pidfile = "absent"
    /\ outcome = "BuildbotNotRunningError"
    /\ events = <<"chdir", "open twistd.pid", "start">>

\* C12: in a buildmaster directory, stop raises BuildbotNotRunningError
\* whenever twistd.pid is absent or cannot be read as a process id, and then
\* it has sent no signal and no liveness probe; the command stop ends with
\* exit status 0 on it.
C12_NotRunning ==
    /\ ("open twistd.pid" \in {events[i] : i \in DOMAIN events} /\ pidfile # "pid")
           => /\ stopPc = "done" /\ outcome = "BuildbotNotRunningError"
              /\ Signals = <<>> /\ Probes = <<>>
    /\ (stopPc = "done" /\ isBuildmasterDir(tac) /\ pidfile # "pid")
           => Returned = "BuildbotNotRunningError"
    /\ outcome = "BuildbotNotRunningError" => pidfile # "pid"
    /\ (command = "stop" /\ cmdPc = "exited"
            /\ outcome = "BuildbotNotRunningError") => exitStatus = 0

\* the command stop has ended with status 0 although twistd.pid holds no
\* number and the daemon runs
C12_Witness ==
    /\ command = "stop" /\ cmdPc = "exited" /\ exitStatus = 0
    /\ pidfile = "garbage" /\ proc = "daemon"
    /\ outcome = "BuildbotNotRunningError"

\* the step of stop that sends the configured signal
SendsSignal == stopPc = "kill" /\ stopPc' # "kill"

\* C13: when the send of the configured signal fails with 'no such process',
\* stop does not raise and goes on as after a delivered signal (it returns
\* "sent" without wait, it sleeps and polls with wait); any other error of
\* the send is raised to the caller, and no liveness probe is ever made then.
C13_NoSuchProcessIsBenign ==
    /\ [][SendsSignal =>
            /\ KillErrno(proc) \in {0, 3} =>
                   /\ outcome' # "OSError"
                   /\ stopCfg.wait => stopPc' = "nap" /\ outcome' = ""
                   /\ ~stopCfg.wait => stopPc' = "done" /\ outcome' = "sent"
            /\ KillErrno(proc) \notin {0, 3} =>
                   stopPc' = "done" /\ outcome' = "OSError"]_vars
    /\ [](outcome = "OSError" => Probes = <<>> /\ stopPc = "done")

\* stop without wait has returned normally from a signal to a pid that no
\* process has
C13_Witness ==
    /\ stopPc = "done" /\ ~stopCfg.wait /\ outcome = "sent"
    /\ proc = "none"
    /\ Signals # <<>>

\* C14: when buildbot.tac is missing or does not hold
\* Application('buildmaster'), stop, restart and the command start refuse
\* with a failure exit before any side effect: no chdir, no read of the pid
\* file, no signal, no probe, and start is not invoked.
C14_InvalidDirRefused ==
    tac \in {"missing", "other"} =>
        /\ events = <<>>
        /\ stopPc = "done" => outcome = "exit1"
        /\ cmdPc = "exited" => exitStatus = 1
        /\ cmdPc \in {"begin", "instop", "exited"}

\* restart has refused a directory whose buildbot.tac is of something else
C14_Witness ==
    /\ command = "restart" /\ cmdPc = "exited" /\ exitStatus = 1
    /\ tac = "other" /\ pidfile = "pid" /\ proc = "daemon"
    /\ events = <<>>

\* C15: when stop(wait=True) runs out of polls with the process alive, it
\* does not raise, its caller gets an outcome that differs from the one of
\* "process is dead", and the timeout is reported also with quiet set.
C15_TimeoutReported ==
    outcome = "timeout" =>
        /\ Returned = "None"
        /\ Returned # ReturnOf("dead")
        /\ printed # <<>>

\* the observed lifecycle: 0 Running, 1 SignalSent, 2 Stopped or
\* StillRunning-timeout
Lifecycle ==
    IF outcome \in {"dead", "timeout"} THEN 2
    ELSE IF Signals # <<>> THEN 1
    ELSE 0

\* C16: within one call of stop the lifecycle only moves forward along
\* Running -> SignalSent -> (Stopped | StillRunning-timeout): the signal is
\* sent at most once and only after the directory check and the pid read
\* succeeded; probes happen only after the send and only with wait; without
\* wait stop returns right after the send; no signal follows a probe.
C16_Lifecycle ==
    /\ [](/\ Len(Signals) <= 1
          /\ Signals # <<>> =>
                 /\ isBuildmasterDir(tac) /\ pidfile = "pid"
                 /\ SubSeq(events, 1, IndexOfSignal(events, 1) - 1)
                        = <<"chdir", "open twistd.pid">>
                 /\ SelectSeq(AfterSignal, IsSignal) = <<>>
          /\ Probes # <<>> =>
                 /\ stopCfg.wait
                 /\ Signals # <<>>
                 /\ SelectSeq(AfterSignal, IsProbe) = Probes
          /\ (~stopCfg.wait /\ Signals # <<>>) =>
                 stopPc = "done" /\ AfterSignal = <<>>
          /\ Lifecycle = 2 => stopPc = "done" /\ stopCfg.wait)
    /\ [][Lifecycle' >= Lifecycle /\ Lifecycle' <= Lifecycle + 1]_vars

\* a call with wait has gone through Running, SignalSent and timeout
C16_Witness ==
    /\ stopCfg.wait /\ outcome = "timeout"
    /\ Lifecycle = 2
    /\ Len(Probes) = 10

(***************************************************************************)
(* OptionsWithOptionsFile.__init__ (runner.py 83-111), TryOptions          *)
(* (962-1091) and UserOptions (1167-1201)                                  *)
(*                                                                         *)
(* One instance is built, the command line is dispatched to it pair by     *)
(* pair, and postOptions runs. optParameters rows are <<name, default>>.   *)
(***************************************************************************)

\* Python's None
None == "None"

\* TryOptions.optParameters, lines 963-1018
TryOptParameters == <<
    <<"connect", None>>, <<"host", None>>, <<"jobdir", None>>,
    <<"username", None>>, <<"master", None>>, <<"passwd", None>>,
    <<"who", None>>, <<"comment", None>>, <<"buildbotbin", "buildbot">>,
    <<"diff", None>>, <<"patchlevel", 0>>, <<"baserev", None>>,
    <<"vc", None>>, <<"branch", None>>, <<"repository", None>>,
    <<"builder", None>>, <<"properties", None>>, <<"topfile", None>>,
    <<"topdir", None>> >>

\* TryOptions.optFlags, lines 1020-1030
TryOptFlags == {"wait", "dryrun", "get-builder-names", "quiet"}

\* TryOptions.buildbotOptions, lines 1033-1056
TryBuildbotOptions == <<
    <<"try_connect", "connect">>, <<"try_vc", "vc">>,
    <<"try_branch", "branch">>, <<"try_repository", "repository">>,
    <<"try_topdir", "topdir">>, <<"try_topfile", "topfile">>,
    <<"try_host", "host">>, <<"try_username", "username">>,
    <<"try_jobdir", "jobdir">>, <<"try_buildbotbin", "buildbotbin">>,
    <<"try_passwd", "passwd">>, <<"try_master", "master">>,
    <<"try_who", "who">>, <<"try_comment", "comment">>,
    <<"try_masterstatus", "master">>, <<"try_dir", "jobdir">>,
    <<"try_password", "passwd">> >>

\* UserOptions.optParameters, lines 1168-1190
UserOptParameters == <<
    <<"master", None>>, <<"username", None>>, <<"passwd", None>>,
    <<"op", None>>, <<"bb_username", None>>, <<"bb_password", None>>,
    <<"ids", None>>, <<"info", None>> >>

\* UserOptions.buildbotOptions, lines 1191-1196
UserBuildbotOptions == <<
    <<"master", "master">>, <<"user_master", "master">>,
    <<"user_username", "username">>, <<"user_passwd", "passwd">> >>

OptClasses == {"TryOptions", "UserOptions"}

OptParameters(cls) ==
    IF cls = "TryOptions" THEN TryOptParameters ELSE UserOptParameters

OptFlags(cls) == IF cls = "TryOptions" THEN TryOptFlags ELSE {}

BuildbotOptions(cls) ==
    IF cls = "TryOptions" THEN TryBuildbotOptions ELSE UserBuildbotOptions

\* the names that postOptions reads from the options file, with the option
\* each one feeds (lines 1083-1091)
PostOptionsNames(cls) ==
    IF cls = "TryOptions"
    THEN << <<"try_builders", "builders">>, <<"try_wait", "wait">>,
            <<"try_quiet", "quiet">>, <<"masterstatus", "master">> >>
    ELSE <<>>

\* the names of a sequence of pairs that feed option o
NamesFor(pairs, o) == {pairs[i][1] : i \in {j \in DOMAIN pairs : pairs[j][2] = o}}

\* lines 104-108: one buildbotOptions pair applied to the copied optParameters
PatchDefault(op, pair, file) ==
    [i \in DOMAIN op |->
        IF op[i][1] = pair[2] /\ pair[1] \in DOMAIN file
        THEN <<op[i][1], file[pair[1]]>>
        ELSE op[i]]

RECURSIVE ApplyOptionsFile(_, _, _)
\* the pairs applied last to first, so that the pair listed first wins
ApplyOptionsFileReversed(op, pairs, file) ==
    IF pairs = <<>> THEN op
    ELSE PatchDefault(ApplyOptionsFile(op, Tail(pairs), file), Head(pairs), file)

\* line 103: for optfile_name, option_name in self.buildbotOptions, in order
ApplyOptionsFile(op, pairs, file) ==
    IF pairs = <<>> THEN op
    ELSE ApplyOptionsFile(PatchDefault(op, Head(pairs), file), Tail(pairs), file)

\* usage.Options.__init__: every parameter starts at the default of its row
\* of cls.optParameters, every flag unset
DefaultOpts(op, flags) ==
    [n \in {op[i][1] : i \in DOMAIN op} \cup flags |->
        IF n \in flags THEN FALSE
        ELSE op[CHOOSE i \in DOMAIN op : op[i][1] = n
                        /\ \A j \in DOMAIN op : op[j][1] = n => j <= i][2]]

\* self[name] = value
SetOpt(o, name, value) ==
    [n \in DOMAIN o \cup {name} |-> IF n = name THEN value ELSE o[n]]

\* Python's truth value of an option value that is a string or None
Truthy(v) == v # None /\ v # ""

\* opts.get(name, default)
Get(file, name, default) == IF name \in DOMAIN file THEN file[name] ELSE default

\* TryOptions.postOptions, lines 1080-1091
TryPostOptions(o, file) ==
    LET o1 == IF o["builders"] = <<>>
              THEN SetOpt(o, "builders", Get(file, "try_builders", <<>>))
              ELSE o
        o2 == IF Get(file, "try_wait", FALSE) THEN SetOpt(o1, "wait", TRUE) ELSE o1
        o3 == IF Get(file, "try_quiet", FALSE) THEN SetOpt(o2, "quiet", TRUE) ELSE o2
    IN  IF ~Truthy(o3["master"])
        THEN SetOpt(o3, "master", Get(file, "masterstatus", None))
        ELSE o3

\* the values the options file and the command line give in the model
FileStrings == {"", "r1", "r2"}

FileBuilderLists == {<<>>, <<"b1">>, <<"b1", "b2">>}

ArgStrings == {"", "e1"}

\* the longest command line
MaxArgs == 2

\* the options the model varies: those fed by the options file
MappedOptions(cls) ==
    {BuildbotOptions(cls)[i][2] : i \in DOMAIN BuildbotOptions(cls)}
        \cup {PostOptionsNames(cls)[i][2] : i \in DOMAIN PostOptionsNames(cls)}

\* the options-file names that feed option o
FileNamesFor(cls, o) ==
    NamesFor(BuildbotOptions(cls), o) \cup NamesFor(PostOptionsNames(cls), o)

\* the values an options file may give the names that feed option o
FileValuesFor(o) ==
    IF o = "builders" THEN FileBuilderLists
    ELSE IF o \in {"wait", "quiet"} THEN BOOLEAN
    ELSE FileStrings

\* the options files that define some of the names feeding option o
OptFilesFor(cls, o) ==
    UNION {[S -> FileValuesFor(o)] : S \in SUBSET FileNamesFor(cls, o)}

\* the command-line name that sets option o
ArgNameFor(o) == IF o = "builders" THEN "builder" ELSE o

\* the command lines of at most MaxArgs pairs that set option o
ArgvsFor(o) ==
    UNION {[1..n -> {<<ArgNameFor(o), v>> : v \in ArgStrings}] : n \in 0..MaxArgs}

OptInit ==
    /\ SpoolIdle
    /\ StopIdle
    /\ EncIdle
    /\ CmdIdle
    /\ LoadIdle
    /\ optCls \in OptClasses
    /\ \E o \in MappedOptions(optCls) :
        /\ optfile \in OptFilesFor(optCls, o)
        /\ argv \in ArgvsFor(o)
    /\ classOptParameters = OptParameters(optCls)
    /\ oldOptParameters = <<>>
    /\ opts = <<>>
    /\ argi = 1
    /\ optPc = "new"

\* lines 97-108: patch the class attribute with the options file's defaults
OptPatch ==
    /\ optPc = "new"
    /\ UNCHANGED notOpt
    /\ UNCHANGED <<optCls, optfile, argv, opts, argi>>
    /\ oldOptParameters' = classOptParameters
    /\ classOptParameters' =
           ApplyOptionsFile(classOptParameters, BuildbotOptions(optCls), optfile)
    /\ optPc' = "patched"

\* line 109: usage.Options.__init__ takes the defaults from the class
OptParentInit ==
    /\ optPc = "patched"
    /\ UNCHANGED notOpt
    /\ UNCHANGED <<optCls, optfile, argv, classOptParameters, oldOptParameters, argi>>
    /\ opts' = DefaultOpts(classOptParameters, OptFlags(optCls))
    /\ optPc' = "inited"

\* lines 110-111: restore the class attribute; then the subclass's __init__
\* (lines 1060-1061 and 1200-1201)
OptRestore ==
    /\ optPc = "inited"
    /\ UNCHANGED notOpt
    /\ UNCHANGED <<optCls, optfile, argv, oldOptParameters, argi>>
    /\ classOptParameters' = oldOptParameters
    /\ opts' = IF optCls = "TryOptions"
               THEN SetOpt(SetOpt(opts, "builders", <<>>), "properties", <<>>)
               ELSE SetOpt(SetOpt(opts, "ids", <<>>), "info", <<>>)
    /\ optPc' = "parse"

\* parseOptions: one command-line pair is dispatched: a flag is set, builder
\* goes to opt_builder (lines 1063-1064), a parameter takes the value
OptParseArg ==
    /\ optPc = "parse"
    /\ argi <= Len(argv)
    /\ UNCHANGED notOpt
    /\ UNCHANGED <<optCls, optfile, argv, classOptParameters, oldOptParameters, optPc>>
    /\ argi' = argi + 1
    /\ opts' = IF argv[argi][1] \in OptFlags(optCls)
               THEN SetOpt(opts, argv[argi][1], TRUE)
               ELSE IF argv[argi][1] = "builder" /\ optCls = "TryOptions"
               THEN SetOpt(opts, "builders", Append(opts["builders"], argv[argi][2]))
               ELSE SetOpt(opts, argv[argi][1], argv[argi][2])

\* parseOptions ends with self.postOptions()
OptPostOptions ==
    /\ optPc = "parse"
    /\ argi > Len(argv)
    /\ UNCHANGED notOpt
    /\ UNCHANGED <<optCls, optfile, argv, classOptParameters, oldOptParameters, argi>>
    /\ opts' = IF optCls = "TryOptions" THEN TryPostOptions(opts, optfile) ELSE opts
    /\ optPc' = "done"

\* lines 98-102: loadOptionsFile raises (the walk's ValueError, an options
\* file that fails): the class attribute is the fresh copy, nothing patched
OptLoadRaises ==
    /\ optPc = "new"
    /\ UNCHANGED notOpt
    /\ UNCHANGED <<optCls, optfile, argv, classOptParameters, opts, argi>>
    /\ oldOptParameters' = classOptParameters
    /\ optPc' = "raised"

\* line 109: usage.Options.__init__ raises; lines 110-111 are not reached
OptParentRaises ==
    /\ optPc = "patched"
    /\ UNCHANGED notOpt
    /\ UNCHANGED <<optCls, optfile, argv, classOptParameters, oldOptParameters,
                   opts, argi>>
    /\ optPc' = "raised"

\* a later instance of the same class is built, with no options file to be
\* found and an empty command line; the class attribute is as it was left
OptBuildAnother ==
    /\ optPc \in {"done", "raised"}
    /\ optfile # <<>>
    /\ UNCHANGED notOpt
    /\ UNCHANGED <<optCls, classOptParameters>>
    /\ optfile' = <<>>
    /\ argv' = <<>>
    /\ oldOptParameters' = <<>>
    /\ opts' = <<>>
    /\ argi' = 1
    /\ optPc' = "new"

OptNext ==
    \/ OptPatch
    \/ OptParentInit
    \/ OptRestore
    \/ OptParseArg
    \/ OptPostOptions
    \/ OptLoadRaises
    \/ OptParentRaises
    \/ OptBuildAnother

OptSpec == OptInit /\ [][OptNext]_vars

(***************************************************************************)
(* Claims about the option values                                          *)
(***************************************************************************)

\* the positions of the command line that set option o
ArgPositions(o) == {i \in DOMAIN argv : argv[i][1] = ArgNameFor(o)}

\* tier E: the command line gives option o
Explicit(o) == ArgPositions(o) # {}

\* the explicit value: the last one given; for builders, all of them in order
ExplicitValue(o) ==
    IF o = "builders"
    THEN [i \in DOMAIN argv |-> argv[i][2]]
    ELSE argv[CHOOSE i \in ArgPositions(o) : \A j \in ArgPositions(o) : j <= i][2]

\* tier D: the compiled-in default of option o
CompiledDefault(cls, o) ==
    IF o = "builders" THEN <<>>
    ELSE OptParameters(cls)[CHOOSE i \in DOMAIN OptParameters(cls) :
                                OptParameters(cls)[i][1] = o][2]

\* the options of the claim: those fed from the options file by
\* buildbotOptions, and builders and master, which postOptions feeds
PrecedenceOptions(cls) == MappedOptions(cls) \ {"wait", "quiet"}

\* C3: after parsing, an option fed from the options-file name f has the
\* explicit command-line value if one was given, else the options file's
\* value of f if f is defined, else the compiled-in default (stated for the
\* options files that define no other name feeding the same option).
C3_ThreeTierPrecedence ==
    optPc = "done" =>
        \A o \in PrecedenceOptions(optCls) :
            \A f \in FileNamesFor(optCls, o) :
                (FileNamesFor(optCls, o) \cap DOMAIN optfile) \subseteq {f} =>
                    opts[o] = IF Explicit(o) THEN ExplicitValue(o)
                              ELSE IF f \in DOMAIN optfile THEN optfile[f]
                              ELSE CompiledDefault(optCls, o)

(***************************************************************************)
(* The try client's job file: makeNetstring and the five createJobfile     *)
(* tests (test_clients_tryclient.py), and createJobfile and the job file's *)
(* reader as the specification describes them (their sources,              *)
(* buildbot/clients/tryclient.py and the try scheduler, are not part of    *)
(* the sources modelled here).                                             *)
(***************************************************************************)

RECURSIVE makeNetstring(_)
\* fields whose length prefix is one too long
makeNetstringShort(strings) ==
    IF strings = <<>> THEN <<>>
    ELSE DecStr(Len(Head(strings)) + 1) \o <<":">> \o Head(strings) \o <<",">>
         \o makeNetstring(Tail(strings))

\* fields with no terminating ','
makeNetstringUnterminated(strings) ==
    IF strings = <<>> THEN <<>>
    ELSE DecStr(Len(Head(strings))) \o <<":">> \o Head(strings)
         \o makeNetstring(Tail(strings))

\* the test's helper makeNetstring, lines 26-27: '%d:%s,' % (len(s), s)
\* for every string, joined
makeNetstring(strings) ==
    IF strings = <<>> THEN <<>>
    ELSE DecStr(Len(Head(strings))) \o <<":">> \o Head(strings) \o <<",">>
         \o makeNetstring(Tail(strings))

\* the values of the tests, lines 32-42, 61, 79, 100, 122
T_bsid == <<"1", "2", "3", "-", "4", "5", "6">>

T_branch == <<"b", "r", "a", "n", "c", "h">>

T_baserev == <<"b", "a", "s", "e", "r", "e", "v">>

T_diff == <<"d", "i", "f", "f", ".", ".", ".">>

T_repository == <<"r", "e", "p", "o">>

T_project == <<"p", "r", "o", "j">>

T_who == <<"s", "o", "m", "e", "u", "s", "e", "r">>

T_comment == <<"i", "n", "s", "i", "g", "h", "t", "f", "u", "l", " ", "c", "o", "m", "m", "e", "n", "t">>

T_runtests == <<"r", "u", "n", "t", "e", "s", "t", "s">>

T_moretests == <<"m", "o", "r", "e", "t", "e", "s", "t", "s">>

T_foo == <<"f", "o", "o">>

T_bar == <<"b", "a", "r">>

\* None, and the empty string, of an optional argument
Empty == <<>>

\* a mapping with one more key
MapPut(f, k, v) == [x \in DOMAIN f \cup {k} |-> IF x = k THEN v ELSE f[x]]

\* the request of the tests: the arguments that vary between them
TestRequest(who, comment, builderNames, properties) ==
    [bsid |-> T_bsid, branch |-> T_branch, baserev |-> T_baserev,
     patchlevel |-> 0, diff |-> T_diff, repository |-> T_repository,
     project |-> T_project, who |-> who, comment |-> comment,
     builderNames |-> builderNames, properties |-> properties]

\* ---- the structured document of version 5 (json.dumps / json.loads)

JNull == [t |-> "null"]

JStr(s) == [t |-> "str", s |-> s]

\* a number written as a string
JIntAsString(n) == [t |-> "str", s |-> DecStr(n)]

JInt(n) == [t |-> "int", n |-> n]

JList(items) == [t |-> "list", items |-> items]

\* an object: its members in the order they are written
JObj(members) == [t |-> "obj", members |-> members]

\* an optional string: None is null
JOpt(s) == IF s = Empty THEN JNull ELSE JStr(s)

RECURSIVE JsonEscape(_)
\* a string's characters with the quote and the backslash escaped
\* a string written with no escapes
JsonEscapeNone(s) == s

JsonEscape(s) ==
    IF s = <<>> THEN <<>>
    ELSE (IF Head(s) \in {"\"", "\\"} THEN <<"\\", Head(s)>> ELSE <<Head(s)>>)
         \o JsonEscape(Tail(s))

RECURSIVE JsonDumps(_)
RECURSIVE JsonDumpItems(_)
RECURSIVE JsonDumpMembers(_)
\* json.dumps with its default separators ', ' and ': '
JsonDumps(v) ==
    CASE v.t = "null" -> <<"n", "u", "l", "l">>
      [] v.t = "str"  -> <<"\"">> \o JsonEscape(v.s) \o <<"\"">>
      [] v.t = "int"  -> DecStr(v.n)
      [] v.t = "list" -> <<"[">> \o JsonDumpItems(v.items) \o <<"]">>
      [] v.t = "obj"  -> <<"{">> \o JsonDumpMembers(v.members) \o <<"}">>

JsonDumpItems(items) ==
    IF items = <<>> THEN <<>>
    ELSE JsonDumps(Head(items))
         \o (IF Len(items) > 1 THEN <<",", " ">> ELSE <<>>)
         \o JsonDumpItems(Tail(items))

JsonDumpMembers(members) ==
    IF members = <<>> THEN <<>>
    ELSE JsonDumps(JStr(Head(members)[1])) \o <<":", " ">>
         \o JsonDumps(Head(members)[2])
         \o (IF Len(members) > 1 THEN <<",", " ">> ELSE <<>>)
         \o JsonDumpMembers(Tail(members))

\* the names of the document's members, lines 129-133 of the test
K_bsid == <<"b", "s", "i", "d">>

K_branch == <<"b", "r", "a", "n", "c", "h">>

K_baserev == <<"b", "a", "s", "e", "r", "e", "v">>

K_patchlevel == <<"p", "a", "t", "c", "h", "l", "e", "v", "e", "l">>

K_diff == <<"d", "i", "f", "f">>

K_repository == <<"r", "e", "p", "o", "s", "i", "t", "o", "r", "y">>

K_project == <<"p", "r", "o", "j", "e", "c", "t">>

K_who == <<"w", "h", "o">>

K_comment == <<"c", "o", "m", "m", "e", "n", "t">>

K_builderNames == <<"b", "u", "i", "l", "d", "e", "r", "N", "a", "m", "e", "s">>

K_properties == <<"p", "r", "o", "p", "e", "r", "t", "i", "e", "s">>

JsonKeys == {K_bsid, K_branch, K_baserev, K_patchlevel, K_diff, K_repository,
             K_project, K_who, K_comment, K_builderNames, K_properties}

\* the document of a request; order lists the property names as the
\* mapping happens to iterate them
JsonDocument(r, order) ==
    JObj(<< <<K_bsid, JStr(r.bsid)>>,
            <<K_branch, JStr(r.branch)>>,
            <<K_baserev, JStr(r.baserev)>>,
            <<K_patchlevel, JInt(r.patchlevel)>>,
            <<K_diff, JStr(r.diff)>>,
            <<K_repository, JStr(r.repository)>>,
            <<K_project, JStr(r.project)>>,
            <<K_who, JOpt(r.who)>>,
            <<K_comment, JOpt(r.comment)>>,
            <<K_builderNames,
              JList([i \in DOMAIN r.builderNames |-> JStr(r.builderNames[i])])>>,
            <<K_properties,
              JObj([i \in DOMAIN order |->
                        <<order[i], JStr(r.properties[order[i]])>>])>> >>)

\* ---- createJobfile, as the specification describes it

\* a selection that looks at who before comment
JobVersionWhoFirst(r) ==
    IF r.properties # <<>> THEN 5
    ELSE IF r.who # Empty THEN 3
    ELSE IF r.comment # Empty THEN 4
    ELSE 2

\* the version: the first that matches of 5 (properties), 4 (comment),
\* 3 (who), 2
JobVersion(r) ==
    IF r.properties # <<>> THEN 5
    ELSE IF r.comment # Empty THEN 4
    ELSE IF r.who # Empty THEN 3
    ELSE 2

\* the fields of the versions 2 to 4, who and comment after the builder names
PlainFieldsWhoLast(r, version) ==
    <<DecStr(version), r.bsid, r.branch, r.baserev, DecStr(r.patchlevel),
      r.diff, r.repository, r.project>>
        \o r.builderNames
        \o (IF version >= 3 THEN <<r.who>> ELSE <<>>)
        \o (IF version >= 4 THEN <<r.comment>> ELSE <<>>)

\* the fields of the versions 2 to 4
PlainFields(r, version) ==
    <<DecStr(version), r.bsid, r.branch, r.baserev, DecStr(r.patchlevel),
      r.diff, r.repository, r.project>>
        \o (IF version >= 3 THEN <<r.who>> ELSE <<>>)
        \o (IF version >= 4 THEN <<r.comment>> ELSE <<>>)
        \o r.builderNames

createJobfile(r, order) ==
    IF JobVersion(r) = 5
    THEN makeNetstring(<<DecStr(5), JsonDumps(JsonDocument(r, order))>>)
    ELSE makeNetstring(PlainFields(r, JobVersion(r)))

\* ---- reading a job file back, as the specification describes it

IsDigit(c) == \E d \in DOMAIN DecDigits : DecDigits[d] = c

DigitValue(c) == (CHOOSE d \in DOMAIN DecDigits : DecDigits[d] = c) - 1

RECURSIVE ReadNumber(_, _, _)
\* the decimal number at position i of t, after the digits n read so far:
\* <<its value, the position after its last digit>>
ReadNumber(t, i, n) ==
    IF i <= Len(t) /\ IsDigit(t[i])
    THEN ReadNumber(t, i + 1, 10 * n + DigitValue(t[i]))
    ELSE <<n, i>>

\* whether word stands at position i of t
HasAt(t, i, word) ==
    i + Len(word) - 1 <= Len(t) /\ SubSeq(t, i, i + Len(word) - 1) = word

RECURSIVE ReadNetstrings(_, _, _)
\* the length-prefixed fields of t from position i on, after the fields acc:
\* each is its length in decimal, ':', that many characters, ','
ReadNetstrings(t, i, acc) ==
    IF i > Len(t) THEN [ok |-> TRUE, fields |-> acc]
    ELSE LET len   == ReadNumber(t, i, 0)
             colon == len[2]
             comma == colon + len[1] + 1
         IN  IF colon = i \/ ~HasAt(t, colon, <<":">>) \/ ~HasAt(t, comma, <<",">>)
             THEN [ok |-> FALSE, fields |-> acc]
             ELSE ReadNetstrings(t, comma + 1,
                                 Append(acc, SubSeq(t, colon + 1, comma - 1)))

\* a mapping, as json.loads returns an object
JMap(m) == [t |-> "map", m |-> m]

JsonBad == [ok |-> FALSE, v |-> JNull, next |-> 0]

JsonGot(v, next) == [ok |-> TRUE, v |-> v, next |-> next]

RECURSIVE JsonReadString(_, _, _)
\* the string of t whose opening quote is before position i
JsonReadString(t, i, acc) ==
    IF i > Len(t) THEN JsonBad
    ELSE IF t[i] = "\"" THEN JsonGot(JStr(acc), i + 1)
    ELSE IF t[i] = "\\"
    THEN IF i + 1 > Len(t) THEN JsonBad
         ELSE JsonReadString(t, i + 2, Append(acc, t[i + 1]))
    ELSE JsonReadString(t, i + 1, Append(acc, t[i]))

RECURSIVE JsonRead(_, _)
RECURSIVE JsonReadItems(_, _, _)
RECURSIVE JsonReadMembers(_, _, _)
\* the value of t that starts at position i
JsonRead(t, i) ==
    IF i > Len(t) THEN JsonBad
    ELSE IF t[i] = "\"" THEN JsonReadString(t, i + 1, <<>>)
    ELSE IF HasAt(t, i, <<"n", "u", "l", "l">>) THEN JsonGot(JNull, i + 4)
    ELSE IF IsDigit(t[i])
    THEN JsonGot(JInt(ReadNumber(t, i, 0)[1]), ReadNumber(t, i, 0)[2])
    ELSE IF t[i] = "["
    THEN IF HasAt(t, i + 1, <<"]">>) THEN JsonGot(JList(<<>>), i + 2)
         ELSE JsonReadItems(t, i + 1, <<>>)
    ELSE IF t[i] = "{"
    THEN IF HasAt(t, i + 1, <<"}">>) THEN JsonGot(JMap(<<>>), i + 2)
         ELSE JsonReadMembers(t, i + 1, <<>>)
    ELSE JsonBad

JsonReadItems(t, i, acc) ==
    LET item == JsonRead(t, i)
    IN  IF ~item.ok THEN JsonBad
        ELSE IF HasAt(t, item.next, <<",", " ">>)
        THEN JsonReadItems(t, item.next + 2, Append(acc, item.v))
        ELSE IF HasAt(t, item.next, <<"]">>)
        THEN JsonGot(JList(Append(acc, item.v)), item.next + 1)
        ELSE JsonBad

JsonReadMembers(t, i, acc) ==
    IF ~HasAt(t, i, <<"\"">>) THEN JsonBad
    ELSE LET name == JsonReadString(t, i + 1, <<>>)
         IN  IF ~name.ok \/ ~HasAt(t, name.next, <<":", " ">>) THEN JsonBad
             ELSE LET val == JsonRead(t, name.next + 2)
                  IN  IF ~val.ok THEN JsonBad
                      ELSE IF HasAt(t, val.next, <<",", " ">>)
                      THEN JsonReadMembers(t, val.next + 2,
                                           MapPut(acc, name.v.s, val.v))
                      ELSE IF HasAt(t, val.next, <<"}">>)
                      THEN JsonGot(JMap(MapPut(acc, name.v.s, val.v)), val.next + 1)
                      ELSE JsonBad

\* json.loads: the value that the whole of t spells
JsonLoads(t) ==
    IF JsonRead(t, 1).ok /\ JsonRead(t, 1).next = Len(t) + 1
    THEN JsonRead(t, 1)
    ELSE JsonBad

\* whether a value read back is a document of the shape JsonDocument writes
IsJobDocument(v) ==
    /\ v.t = "map" /\ DOMAIN v.m = JsonKeys
    /\ \A k \in {K_bsid, K_branch, K_baserev, K_diff, K_repository, K_project} :
           v.m[k].t = "str"
    /\ v.m[K_patchlevel].t = "int"
    /\ v.m[K_who].t \in {"str", "null"} /\ v.m[K_comment].t \in {"str", "null"}
    /\ v.m[K_builderNames].t = "list"
    /\ \A i \in DOMAIN v.m[K_builderNames].items :
           v.m[K_builderNames].items[i].t = "str"
    /\ v.m[K_properties].t = "map"
    /\ \A k \in DOMAIN v.m[K_properties].m : v.m[K_properties].m[k].t = "str"

\* an optional string read back: null is None
FromJOpt(v) == IF v.t = "null" THEN Empty ELSE v.s

\* the request that a document holds
RequestOfDocument(v) ==
    [bsid |-> v.m[K_bsid].s, branch |-> v.m[K_branch].s,
     baserev |-> v.m[K_baserev].s, patchlevel |-> v.m[K_patchlevel].n,
     diff |-> v.m[K_diff].s, repository |-> v.m[K_repository].s,
     project |-> v.m[K_project].s, who |-> FromJOpt(v.m[K_who]),
     comment |-> FromJOpt(v.m[K_comment]),
     builderNames |-> [i \in DOMAIN v.m[K_builderNames].items |->
                          v.m[K_builderNames].items[i].s],
     properties |-> [k \in DOMAIN v.m[K_properties].m |->
                          v.m[K_properties].m[k].s]]

NotAJob == [ok |-> FALSE, r |-> <<>>]

\* a field that is a decimal number, all of it
IsNumber(f) == f # <<>> /\ ReadNumber(f, 1, 0)[2] = Len(f) + 1

\* the request of the fields of a version 2, 3 or 4 job file
RequestOfFields(f, version) ==
    [bsid |-> f[2], branch |-> f[3], baserev |-> f[4],
     patchlevel |-> ReadNumber(f[5], 1, 0)[1], diff |-> f[6],
     repository |-> f[7], project |-> f[8],
     who |-> IF version >= 3 THEN f[9] ELSE Empty,
     comment |-> IF version >= 4 THEN f[10] ELSE Empty,
     builderNames |-> SubSeq(f, version + 7, Len(f)),
     properties |-> <<>>]

\* the reader: the version tag first, then the layout of that version
readJobfile(text) ==
    LET ns == ReadNetstrings(text, 1, <<>>)
        f  == ns.fields
    IN  IF ~ns.ok \/ f = <<>> THEN NotAJob
        ELSE IF f[1] \in {<<"2">>, <<"3">>, <<"4">>}
        THEN IF Len(f) >= DigitValue(f[1][1]) + 7 /\ IsNumber(f[5])
             THEN [ok |-> TRUE, r |-> RequestOfFields(f, DigitValue(f[1][1]))]
             ELSE NotAJob
        ELSE IF f[1] = <<"5">> /\ Len(f) = 2 /\ JsonLoads(f[2]).ok
        THEN IF IsJobDocument(JsonLoads(f[2]).v)
             THEN [ok |-> TRUE, r |-> RequestOfDocument(JsonLoads(f[2]).v)]
             ELSE NotAJob
        ELSE NotAJob

\* ---- one request, encoded and read back

\* the most builder names of a request
MaxBuilders == 2

\* a diff that looks like a length-prefixed field
NetstringLike == <<"1", ":", "a", ",">>

\* a property value with the characters that the document escapes
Quoted == <<"a", "\"", ",", "\\">>

BuilderLists ==
    UNION {[1..n -> {T_runtests, T_moretests}] : n \in 1..MaxBuilders}

PropertySets == {<<>>, T_foo :> T_bar, T_foo :> T_bar @@ T_bar :> Quoted}

\* the requests of the model: those of the five tests among them
Requests ==
    {[bsid |-> T_bsid, branch |-> br, baserev |-> T_baserev, patchlevel |-> pl,
      diff |-> d, repository |-> T_repository, project |-> T_project,
      who |-> w, comment |-> c, builderNames |-> b, properties |-> p] :
        br \in {T_branch, <<>>}, pl \in {0, 1, 12},
        d \in {T_diff, <<>>, NetstringLike},
        w \in {Empty, T_who}, c \in {Empty, T_comment},
        b \in BuilderLists, p \in PropertySets}

\* the orders in which a mapping may iterate its names
KeyOrders(m) ==
    {o \in [1..Cardinality(DOMAIN m) -> DOMAIN m] :
        \A i, j \in DOMAIN o : i # j => o[i] # o[j]}

EncInit ==
    /\ SpoolIdle
    /\ StopIdle
    /\ OptIdle
    /\ CmdIdle
    /\ LoadIdle
    /\ req \in Requests
    /\ jobfile = <<>>
    /\ decoded = NotAJob
    /\ encPc = "new"

\* the try client makes the job file
EncCreate ==
    /\ encPc = "new"
    /\ UNCHANGED notEnc
    /\ UNCHANGED <<req, decoded>>
    /\ \E order \in KeyOrders(req.properties) :
           jobfile' = createJobfile(req, order)
    /\ encPc' = "encoded"

\* the job file is read back
EncRead ==
    /\ encPc = "encoded"
    /\ UNCHANGED notEnc
    /\ UNCHANGED <<req, jobfile>>
    /\ decoded' = readJobfile(jobfile)
    /\ encPc' = "decoded"

EncNext ==
    \/ EncCreate
    \/ EncRead

EncSpec == EncInit /\ [][EncNext]_vars

\* ---- the tests' expected job files, lines 43-48, 63-68, 83-88, 103-108, 123-135

Expected_v2_one_builder ==
    makeNetstring(<< <<"2">>, T_bsid, T_branch, T_baserev, <<"0">>, T_diff,
                     T_repository, T_project, T_runtests >>)

Expected_v2_two_builders ==
    makeNetstring(<< <<"2">>, T_bsid, T_branch, T_baserev, <<"0">>, T_diff,
                     T_repository, T_project, T_runtests, T_moretests >>)

Expected_v3 ==
    makeNetstring(<< <<"3">>, T_bsid, T_branch, T_baserev, <<"0">>, T_diff,
                     T_repository, T_project, T_who, T_runtests >>)

Expected_v4 ==
    makeNetstring(<< <<"4">>, T_bsid, T_branch, T_baserev, <<"0">>, T_diff,
                     T_repository, T_project, T_who, T_comment, T_runtests >>)

Expected_v5 ==
    makeNetstring(<< <<"5">>,
        JsonDumps(JsonDocument(TestRequest(T_who, T_comment, <<T_runtests>>,
                                           T_foo :> T_bar), <<T_foo>>)) >>)

\* ---- what the claims speak of

\* the job file is written
WroteJob == encPc \in {"encoded", "decoded"}

\* the length-prefixed fields of the job file, read independently of the writer
JobFields == ReadNetstrings(jobfile, 1, <<>>)

\* a field is the decimal string of n: digits only, no leading zero
IsDecimalOf(f, n) ==
    IsNumber(f) /\ ReadNumber(f, 1, 0)[1] = n /\ (Len(f) = 1 \/ f[1] # "0")

\* the seven fields after the tag, common to the versions 2 to 4
CommonFields(f, r) ==
    /\ f[2] = r.bsid
    /\ f[3] = r.branch
    /\ f[4] = r.baserev
    /\ IsDecimalOf(f[5], r.patchlevel)
    /\ f[6] = r.diff
    /\ f[7] = r.repository
    /\ f[8] = r.project

\* the request has neither who, comment nor properties
PlainRequest ==
    req.who = Empty /\ req.comment = Empty /\ req.properties = <<>>

\* the fields are the tag "2", the seven common fields and the builder names
V2Order(f) ==
    /\ Len(f) >= 8
    /\ f[1] = <<"2">>
    /\ CommonFields(f, req)
    /\ SubSeq(f, 9, Len(f)) = req.builderNames

\* C4 as the specification words it: a request with empty who, comment and
\* properties and N >= 1 builder names is written as version "2" in exactly
\* 7 + N length-prefixed fields: the tag, buildSetId, branch, baseRevision,
\* patchLevel in decimal, diff, repository, project, then the builder names
C4_SevenPlusN ==
    (WroteJob /\ PlainRequest) =>
        /\ JobFields.ok
        /\ Len(JobFields.fields) = 7 + Len(req.builderNames)
        /\ V2Order(JobFields.fields)

\* C4 amended: such a request is written as version "2" in exactly 8 + N
\* length-prefixed fields (the tag, the seven request fields in the order
\* named, then the N builder names in builderNames order), and the job files
\* of the two version-2 tests are the ones the tests expect
C4_EightPlusN ==
    (WroteJob /\ PlainRequest) =>
        /\ JobFields.ok
        /\ Len(JobFields.fields) = 8 + Len(req.builderNames)
        /\ V2Order(JobFields.fields)
        /\ req = TestRequest(Empty, Empty, <<T_runtests>>, <<>>)
               => jobfile = Expected_v2_one_builder
        /\ req = TestRequest(Empty, Empty, <<T_runtests, T_moretests>>, <<>>)
               => jobfile = Expected_v2_two_builders

\* a version-2 job file of two builders is written, its diff looking like a
\* length-prefixed field itself
C4_Witness ==
    /\ WroteJob
    /\ PlainRequest
    /\ Len(req.builderNames) = 2
    /\ req.diff = NetstringLike
    /\ req.patchlevel = 12
    /\ Len(JobFields.fields) = 10

\* the version-2 fields of the request: those of the same request without
\* who and comment
V2FieldsOfRequest ==
    ReadNetstrings(
        createJobfile([req EXCEPT !.who = Empty, !.comment = Empty], <<>>),
        1, <<>>).fields

\* C5: with empty properties, a non-empty who and empty comment give version
\* "3", whose fields are the version-2 fields of the same request with the tag
\* changed and who inserted right after project, before the first builder
\* name; who and comment both non-empty give version "4", with comment right
\* after who; all other fields keep their values and relative order
C5_WhoAndCommentInserted ==
    (WroteJob /\ req.properties = <<>> /\ req.who # Empty) =>
        /\ JobFields.ok
        /\ req.comment = Empty =>
               JobFields.fields =
                   << <<"3">> >> \o SubSeq(V2FieldsOfRequest, 2, 8)
                       \o <<req.who>>
                       \o SubSeq(V2FieldsOfRequest, 9, Len(V2FieldsOfRequest))
        /\ req.comment # Empty =>
               JobFields.fields =
                   << <<"4">> >> \o SubSeq(V2FieldsOfRequest, 2, 8)
                       \o <<req.who, req.comment>>
                       \o SubSeq(V2FieldsOfRequest, 9, Len(V2FieldsOfRequest))
        /\ CommonFields(JobFields.fields, req)
        /\ req = TestRequest(T_who, Empty, <<T_runtests>>, <<>>)
               => jobfile = Expected_v3
        /\ req = TestRequest(T_who, T_comment, <<T_runtests>>, <<>>)
               => jobfile = Expected_v4

\* a version-4 job file of two builders is written
C5_Witness ==
    /\ WroteJob
    /\ req.properties = <<>>
    /\ req.who = T_who
    /\ req.comment = T_comment
    /\ req.builderNames = <<T_moretests, T_runtests>>
    /\ JobFields.fields[1] = <<"4">>
    /\ Len(JobFields.fields) = 12

\* the document of the job file, read independently of the writer
JobDocument == JsonLoads(JobFields.fields[2])

\* C6: whenever properties is non-empty, whatever who and comment, the job
\* file is exactly two length-prefixed fields: the tag "5" and one document
\* that holds bsid, branch, baserev, patchlevel as an integer, diff,
\* repository, project, who, comment, builderNames as an ordered list and
\* properties as a mapping
C6_PropertiesGiveVersion5 ==
    (WroteJob /\ req.properties # <<>>) =>
        /\ JobFields.ok
        /\ Len(JobFields.fields) = 2
        /\ JobFields.fields[1] = <<"5">>
        /\ JobDocument.ok
        /\ JobDocument.v.t = "map"
        /\ DOMAIN JobDocument.v.m = JsonKeys
        /\ JobDocument.v.m[K_bsid] = JStr(req.bsid)
        /\ JobDocument.v.m[K_branch] = JStr(req.branch)
        /\ JobDocument.v.m[K_baserev] = JStr(req.baserev)
        /\ JobDocument.v.m[K_patchlevel] = [t |-> "int", n |-> req.patchlevel]
        /\ JobDocument.v.m[K_diff] = JStr(req.diff)
        /\ JobDocument.v.m[K_repository] = JStr(req.repository)
        /\ JobDocument.v.m[K_project] = JStr(req.project)
        /\ JobDocument.v.m[K_who] = JOpt(req.who)
        /\ JobDocument.v.m[K_comment] = JOpt(req.comment)
        /\ JobDocument.v.m[K_builderNames].t = "list"
        /\ JobDocument.v.m[K_builderNames].items =
               [i \in DOMAIN req.builderNames |-> JStr(req.builderNames[i])]
        /\ JobDocument.v.m[K_properties].t = "map"
        /\ JobDocument.v.m[K_properties].m =
               [k \in DOMAIN req.properties |-> JStr(req.properties[k])]
        /\ req = TestRequest(T_who, T_comment, <<T_runtests>>, T_foo :> T_bar)
               => jobfile = Expected_v5

\* a version-5 job file is written for a request with two properties, a
\* comment and no who
C6_Witness ==
    /\ WroteJob
    /\ Cardinality(DOMAIN req.properties) = 2
    /\ req.who = Empty
    /\ req.comment = T_comment
    /\ Len(req.builderNames) = 2
    /\ Len(JobFields.fields) = 2
    /\ JobDocument.ok

\* C7: reading is the exact left inverse of writing: for every request (who,
\* comment and properties each empty or set, N >= 1 builder names) the job
\* file read back gives every field of the request unchanged, the builder
\* names in order and the properties as a mapping
C7_ReadInvertsCreate ==
    encPc = "decoded" =>
        /\ decoded.ok
        /\ decoded.r.bsid = req.bsid
        /\ decoded.r.branch = req.branch
        /\ decoded.r.baserev = req.baserev
        /\ decoded.r.patchlevel = req.patchlevel
        /\ decoded.r.diff = req.diff
        /\ decoded.r.repository = req.repository
        /\ decoded.r.project = req.project
        /\ decoded.r.who = req.who
        /\ decoded.r.comment = req.comment
        /\ decoded.r.builderNames = req.builderNames
        /\ DOMAIN decoded.r.properties = DOMAIN req.properties
        /\ \A k \in DOMAIN req.properties :
               decoded.r.properties[k] = req.properties[k]

\* a job file with who, two properties (one with characters the document
\* escapes) and a diff that looks like a field is read back
C7_Witness ==
    /\ encPc = "decoded"
    /\ decoded.ok
    /\ req.who = T_who
    /\ req.diff = NetstringLike
    /\ Quoted \in {req.properties[k] : k \in DOMAIN req.properties}
    /\ Len(req.builderNames) = 2

(***************************************************************************)
(* loadOptionsFile (runner.py 114-171)                                     *)
(*                                                                         *)
(* A candidate is a .buildbot directory: candidate k is the one k parents  *)
(* above os.getcwd(), candidate Home the per-user one. An options file is  *)
(* what its execution defines; names are sequences of characters.          *)
(***************************************************************************)

\* line 136: toomany = 20
toomany == 20

\* the most parents between os.getcwd() and the root
MaxDepth == 21

\* line 133: os.path.expanduser("~/.buildbot")
Home == -1

Candidates == (0..MaxDepth) \cup {Home}

\* the candidates that may exist: the two nearest and the per-user one
Populated == {0, 1, Home}

\* the options files: "none" is no file, "bad" one whose execution raises
OptionsFiles == {"none", "a", "b", "bad"}

\* what the execution of an options file defines
FileDefs(f) ==
    CASE f = "a" -> (<<"m">> :> "a")
      [] f = "b" -> (<<"m">> :> "b") @@ (<<"_", "p">> :> "b")
                        @@ (<<"_", "_", "x">> :> "b")
      [] OTHER -> <<>>

\* what exec adds to the namespace it runs in
Builtins == <<"_", "_", "b", "u", "i", "l", "t", "i", "n", "s", "_", "_">>
                :> "builtins"

\* line 161: exec options in localDict
Exec(f, dict) == FileDefs(f) @@ Builtins @@ dict

NoDir == [isdir |-> FALSE, owned |-> FALSE, options |-> "none"]

DirStates ==
    {NoDir} \cup [isdir : {TRUE}, owned : BOOLEAN, options : OptionsFiles]

\* lines 137-146: the upward walk from the directory `level` parents above
\* the current one, with `left` as toomany; D is the depth of os.getcwd()
RECURSIVE Walk(_, _, _, _)
Walk(level, path, left, D) ==
    IF level = D THEN [searchpath |-> Append(path, level), raised |-> FALSE]
    ELSE IF left - 1 = 0
    THEN [searchpath |-> Append(path, level), raised |-> TRUE]
    ELSE Walk(level + 1, Append(path, level), left - 1, D)

\* an ownership check that skips nothing
SkipsForeignNever(plat, dir) == FALSE

\* lines 152-155: the directory is skipped because the user does not own it
SkipsForeign(plat, dir) == plat # "win32" /\ ~dir.owned

\* lines 151-166: what the loop body does with one candidate
Visit(plat, dir) ==
    IF ~dir.isdir THEN "notdir"
    ELSE IF SkipsForeign(plat, dir) THEN "foreign"
    ELSE IF dir.options = "none" THEN "nofile"
    ELSE IF dir.options = "bad" THEN "error"
    ELSE "read"

\* a loop that goes on after it has read an options file
ContinuesAlways(v) == TRUE

\* lines 151, 155, 157, 166: the loop goes on to the next candidate, or breaks
Continues(v) == v \in {"notdir", "foreign", "nofile"}

\* a loop that takes an options file that fails for an empty one
RaisesNever(v) == FALSE

\* lines 162-165: the error of the execution is re-raised
Raises(v) == v = "error"

NothingRead == [read |-> <<>>, printed |-> <<>>, dict |-> <<>>, raised |-> FALSE]

\* lines 150-166: the loop over searchpath from position i on
RECURSIVE Search(_, _, _, _, _)
Search(plat, fs, path, i, acc) ==
    IF i > Len(path) THEN acc
    ELSE LET d == path[i]
             v == Visit(plat, fs[d])
             seen == [acc EXCEPT
                        !.printed = IF v = "foreign"
                                    THEN Append(@, <<"skipping", d>>) ELSE @,
                        !.read = IF v \in {"read", "error"}
                                 THEN Append(@, d) ELSE @,
                        !.dict = IF v = "read"
                                 THEN Exec(fs[d].options, @) ELSE @]
         IN  IF Raises(v)
             THEN [seen EXCEPT !.raised = TRUE,
                       !.printed = Append(@, <<"error while reading", d>>)]
             ELSE IF Continues(v) THEN Search(plat, fs, path, i + 1, seen)
             ELSE seen

\* line 169: k.startswith("__")
StartsWithDunder(k) == Len(k) >= 2 /\ k[1] = "_" /\ k[2] = "_"

\* a result with every name left in
StripNothing(dict) == dict

\* lines 168-170: the names that start with "__" deleted
Strip(dict) == [k \in {n \in DOMAIN dict : ~StartsWithDunder(n)} |-> dict[k]]

\* the call as a function of its inputs: how it ends and what it returns
LoadOptionsFile(plat, fs, D) ==
    IF Walk(0, <<>>, toomany, D).raised
    THEN [ended |-> "ValueError", dict |-> <<>>]
    ELSE LET r == Search(plat, fs,
                         Append(Walk(0, <<>>, toomany, D).searchpath, Home),
                         1, NothingRead)
         IN  IF r.raised THEN [ended |-> "raised", dict |-> <<>>]
             ELSE [ended |-> "returned", dict |-> Strip(r.dict)]

LoadInit ==
    /\ SpoolIdle
    /\ StopIdle
    /\ OptIdle
    /\ EncIdle
    /\ CmdIdle
    /\ platform \in {"posix", "win32"}
    /\ depth \in 0..MaxDepth
    /\ \E near \in [Populated -> DirStates] :
           dirs = [c \in Candidates |->
                      IF c \in Populated /\ c <= depth THEN near[c] ELSE NoDir]
    /\ searchpath = <<>> /\ localDict = <<>> /\ filesRead = <<>>
    /\ loadPrinted = <<>>
    /\ loadPc = "walk"

\* lines 135-147: build the search list, or give up after toomany parents
LoadWalk ==
    /\ loadPc = "walk"
    /\ UNCHANGED notLoad
    /\ UNCHANGED <<platform, depth, dirs, localDict, filesRead, loadPrinted>>
    /\ IF Walk(0, <<>>, toomany, depth).raised
       THEN /\ searchpath' = Walk(0, <<>>, toomany, depth).searchpath
            /\ loadPc' = "ValueError"
       ELSE /\ searchpath' =
                   Append(Walk(0, <<>>, toomany, depth).searchpath, Home)
            /\ loadPc' = "search"

\* lines 148-166: read the first options file of the search list
LoadSearch ==
    /\ loadPc = "search"
    /\ UNCHANGED notLoad
    /\ UNCHANGED <<platform, depth, dirs, searchpath>>
    /\ LET r == Search(platform, dirs, searchpath, 1, NothingRead)
       IN  /\ filesRead' = r.read
           /\ loadPrinted' = r.printed
           /\ localDict' = r.dict
           /\ loadPc' = IF r.raised THEN "raised" ELSE "strip"

\* lines 168-171: drop the "__" names and return
LoadStrip ==
    /\ loadPc = "strip"
    /\ UNCHANGED notLoad
    /\ UNCHANGED <<platform, depth, dirs, searchpath, filesRead, loadPrinted>>
    /\ localDict' = Strip(localDict)
    /\ loadPc' = "returned"

LoadNext ==
    \/ LoadWalk
    \/ LoadSearch
    \/ LoadStrip

LoadSpec == LoadInit /\ [][LoadNext]_vars

(***************************************************************************)
(* Claims about loadOptionsFile                                            *)
(***************************************************************************)

\* the loop over the search list is over
SearchDone == loadPc \in {"strip", "returned", "raised"}

\* the candidate exists, passes the ownership check where there is one, and
\* has an options file
Eligible(c) ==
    /\ dirs[c].isdir
    /\ platform = "win32" \/ dirs[c].owned
    /\ dirs[c].options # "none"

\* the positions of the search list whose candidate is eligible
Matches == {i \in DOMAIN searchpath : Eligible(searchpath[i])}

\* the first eligible candidate of the search list
FirstMatch == searchpath[CHOOSE i \in Matches : \A j \in Matches : i <= j]

\* cwd/.buildbot, parent/.buildbot, ..., root/.buildbot, then the per-user one
ExpectedSearchPath ==
    [i \in 1..(depth + 2) |-> IF i = depth + 2 THEN Home ELSE i - 1]

\* C17: loadOptionsFile reads at most one options file: the one of the first
\* candidate, in the order cwd/.buildbot, parent/.buildbot, ...,
\* root/.buildbot, per-user directory, that exists, passes the ownership
\* check and has an options file; candidates that are missing or have no
\* options file do not stop the search, and nothing after the first match is
\* read.
C17_FirstMatchWins ==
    /\ Len(filesRead) <= 1
    /\ SearchDone =>
           /\ searchpath = ExpectedSearchPath
           /\ filesRead = IF Matches = {} THEN <<>> ELSE <<FirstMatch>>
    /\ ~SearchDone => filesRead = <<>>

\* the options file of the parent's candidate is read: the nearest candidate
\* has no options file, the per-user one has one too
C17_Witness ==
    /\ loadPc = "returned"
    /\ filesRead = <<1>>
    /\ dirs[0].isdir /\ dirs[0].owned /\ dirs[0].options = "none"
    /\ dirs[1].options = "b"
    /\ dirs[Home].owned /\ dirs[Home].options = "a"
    /\ localDict = (<<"m">> :> "b") @@ (<<"_", "p">> :> "b")

\* the candidates that are directories of another user
Foreign(fs) == {c \in Populated : fs[c].isdir /\ ~fs[c].owned}

\* the filesystems that differ from fs at most in the contents of the
\* candidates of another user
ForeignVariants(fs) ==
    {[c \in DOMAIN fs |-> IF c \in Foreign(fs)
                          THEN [fs[c] EXCEPT !.options = g[c]] ELSE fs[c]] :
        g \in [Populated -> OptionsFiles]}

\* the call has ended
LoadEnded == loadPc \in {"returned", "raised", "ValueError"}

\* C18: where ownership is checked, loadOptionsFile reads no options file of
\* a candidate that the user does not own, and its result is the same on
\* every filesystem that differs only in the contents of such candidates.
C18_ForeignDirsIgnored ==
    platform # "win32" =>
        /\ \A i \in DOMAIN filesRead : dirs[filesRead[i]].owned
        /\ LoadEnded =>
               \A fs \in ForeignVariants(dirs) :
                   LoadOptionsFile(platform, fs, depth) =
                       [ended |-> loadPc,
                        dict |-> IF loadPc = "returned" THEN localDict
                                 ELSE <<>>]

\* a call has returned the parent's options although the nearest candidate,
\* another user's, has an options file
C18_Witness ==
    /\ platform = "posix" /\ loadPc = "returned"
    /\ dirs[0].isdir /\ ~dirs[0].owned /\ dirs[0].options = "b"
    /\ filesRead = <<1>>
    /\ localDict = (<<"m">> :> "a")
    /\ loadPrinted = << <<"skipping", 0>> >>

\* C19: the upward walk is bounded by 20 steps: the call completes the walk
\* for every current directory from which the root is reached in at most 20
\* upward steps, and raises, before any options file is read, only when more
\* than 20 steps are needed.
C19_WalkBound ==
    /\ (depth <= 20 /\ loadPc # "walk") => loadPc # "ValueError"
    /\ loadPc = "ValueError" => depth > 20 /\ filesRead = <<>>

\* C20: when the execution of the first matching options file raises,
\* loadOptionsFile prints the path of that file and re-raises: the file is
\* not skipped, no later candidate is read, and no mapping is returned.
C20_ErrorReraised ==
    /\ (SearchDone /\ Matches # {} /\ dirs[FirstMatch].options = "bad") =>
           /\ loadPc = "raised"
           /\ filesRead = <<FirstMatch>>
           /\ loadPrinted # <<>>
           /\ loadPrinted[Len(loadPrinted)] = <<"error while reading", FirstMatch>>
           /\ localDict = <<>>
    /\ loadPc = "raised" =>
           Matches # {} /\ dirs[FirstMatch].options = "bad"

\* the call has raised on the options file of the nearest candidate, with a
\* good options file in the per-user directory
C20_Witness ==
    /\ loadPc = "raised"
    /\ filesRead = <<0>>
    /\ dirs[0].options = "bad"
    /\ dirs[Home].owned /\ dirs[Home].options = "a"
    /\ localDict = <<>>

(***************************************************************************)
(* Version selection and the length-prefix rule                            *)
(***************************************************************************)

OptionalFields == {"who", "comment", "properties"}

\* the optional fields that the request populates
PopulatedFields(r) ==
    {f \in OptionalFields :
        \/ f = "who" /\ r.who # Empty
        \/ f = "comment" /\ r.comment # Empty
        \/ f = "properties" /\ r.properties # <<>>}

\* whether the fixed field list of version v has a place for the field
HasPlace(v, f) ==
    CASE f = "who" -> v >= 3
      [] f = "comment" -> v >= 4
      [] f = "properties" -> v >= 5

\* the versions that can hold every populated field of the request
VersionsFor(r) == {v \in 2..5 : \A f \in PopulatedFields(r) : HasPlace(v, f)}

LowestVersion(r) == CHOOSE v \in VersionsFor(r) : \A w \in VersionsFor(r) : v <= w

\* C21: version selection is a total function of which of who, comment and
\* properties are populated: every job file starts with a tag in "2".."5",
\* never "1", and the tag is the lowest version whose field list has a place
\* for every populated field, in all eight combinations.
C21_LowestVersion ==
    WroteJob =>
        /\ JobFields.ok
        /\ JobFields.fields # <<>>
        /\ JobFields.fields[1] \in {<<"2">>, <<"3">>, <<"4">>, <<"5">>}
        /\ DigitValue(JobFields.fields[1][1]) = LowestVersion(req)

\* a job file of version 4 is written for a request with a comment and no who
C21_Witness ==
    /\ WroteJob
    /\ req.who = Empty /\ req.comment = T_comment /\ req.properties = <<>>
    /\ JobFields.fields[1] = <<"4">>
    /\ JobFields.fields[9] = <<>>

\* the most fields of a message
MaxFields == 3

FieldChars == {"1", ":", ","}

\* a field long enough for a length of two digits, separators in it
LongField == <<"1", "0", ":", "a", ",", "b", ",", "2", ":", ",", ",", ":">>

\* the field values: empty, one or two characters, and the long one
FieldValues ==
    {<<>>, LongField} \cup {<<a>> : a \in FieldChars}
        \cup {<<a, b>> : a \in FieldChars, b \in FieldChars}

NetInit ==
    /\ SpoolIdle
    /\ StopIdle
    /\ OptIdle
    /\ CmdIdle
    /\ LoadIdle
    /\ req \in UNION {[1..n -> FieldValues] : n \in 0..MaxFields}
    /\ jobfile = <<>>
    /\ decoded = <<>>
    /\ encPc = "fields"

\* the fields are length-prefixed and concatenated
NetJoin ==
    /\ encPc = "fields"
    /\ UNCHANGED notEnc
    /\ UNCHANGED <<req, decoded>>
    /\ jobfile' = makeNetstring(req)
    /\ encPc' = "joined"

\* the message is split by the rule
NetSplit ==
    /\ encPc = "joined"
    /\ UNCHANGED notEnc
    /\ UNCHANGED <<req, jobfile>>
    /\ decoded' = ReadNetstrings(jobfile, 1, <<>>)
    /\ encPc' = "split"

NetNext ==
    \/ NetJoin
    \/ NetSplit

NetSpec == NetInit /\ [][NetNext]_vars

\* C22: the length-prefix rule is self-delimiting: for every sequence of
\* field values, empty fields and fields with ':' or ',' included, splitting
\* the concatenated message by the rule gives back exactly the sequence.
C22_SelfDelimiting ==
    encPc = "split" => decoded.ok /\ decoded.fields = req

\* a message of an empty field, a field of separators and the long field has
\* been split
C22_Witness ==
    /\ encPc = "split"
    /\ req = << <<>>, <<",", ":">>, LongField >>
    /\ decoded.ok
    /\ Len(decoded.fields) = 3

(***************************************************************************)
(* The mapping that loadOptionsFile returns                                *)
(***************************************************************************)

\* a name of the implementation: it starts with two underscores
Reserved(k) == Len(k) >= 2 /\ SubSeq(k, 1, 2) = <<"_", "_">>

\* what the options file that the search selects defines; nothing when the
\* search selects none
SelectedDefs == IF Matches = {} THEN <<>> ELSE FileDefs(dirs[FirstMatch].options)

\* C23: the mapping that loadOptionsFile returns has no name that starts
\* with '__'; it holds exactly the other names that the selected options
\* file defines, with their values, and is empty when no file is selected.
C23_ReturnedMapping ==
    loadPc = "returned" =>
        /\ \A k \in DOMAIN localDict : ~Reserved(k)
        /\ DOMAIN localDict = {k \in DOMAIN SelectedDefs : ~Reserved(k)}
        /\ \A k \in DOMAIN localDict : localDict[k] = SelectedDefs[k]
        /\ Matches = {} => DOMAIN localDict = {}

\* the call has returned the names of an options file that also defines a
\* name with two underscores and one with a single underscore
C23_Witness ==
    /\ loadPc = "returned"
    /\ Matches # {}
    /\ dirs[FirstMatch].options = "b"
    /\ DOMAIN localDict = {<<"m">>, <<"_", "p">>}

(***************************************************************************)
(* The file that a successful doTryServer run delivers                     *)
(***************************************************************************)

\* run p takes the time and names its file in this step
Names(p) == runs[p].pc = "idle" /\ runs'[p].pc = "named"

\* run p ends successfully in this step
Succeeds(p) == runs[p].pc # "done" /\ runs'[p].pc = "done"

\* C24: a run at Unix time T with payload P names its file '<T in
\* decimal>-<hex digest of P>', a name that depends on T and P only; when
\* the run succeeds, jobdir/new has an entry of that name whose content is P,
\* the name was the one used in jobdir/tmp, and jobdir/tmp no longer has it.
C24_DeliveredFile ==
    [][\A p \in Runs :
          /\ Names(p) =>
                 runs'[p].fn = DecStr(clock \div TicksPerSecond) \o <<"-">>
                                   \o HexDigest(runs'[p].job)
          /\ Succeeds(p) =>
                 /\ runs[p].fn \in DOMAIN tmpdir
                 /\ runs[p].fn \notin DOMAIN tmpdir'
                 /\ runs[p].fn \in DOMAIN newdir'
                 /\ inodes'[newdir'[runs[p].fn]] = runs[p].job]_vars

(***************************************************************************)
(* restart after a timeout, and the errors of the liveness probe           *)
(***************************************************************************)

\* C25: restart invokes start whenever its stop(wait=True) call returns,
\* after the outcome dead and after the outcome timeout alike: start is its
\* next and last event, right after the last event of stop; it has sent the
\* one SIGTERM and no stronger signal, and it has not ended without start.
\* After a timeout all ten probes had found the daemon alive.
C25_RestartAfterTimeout ==
    (command = "restart" /\ outcome \in {"dead", "timeout"}) =>
        /\ Signals = <<"kill SIGTERM">>
        /\ cmdPc \in {"instop", "start", "exited"}
        /\ cmdPc = "exited" =>
               /\ Starts = <<"start">>
               /\ events[Len(events)] = "start"
               /\ events[Len(events) - 1] =
                      IF outcome = "timeout" THEN "sleep 1" ELSE "kill 0: OSError"
        /\ outcome = "timeout" =>
               Len(Probes) = 10 /\ \A i \in DOMAIN Probes : Probes[i] = "kill 0: ok"

\* restart has invoked start after a timeout, the old daemon still alive
C25_Witness ==
    /\ command = "restart" /\ cmdPc = "exited"
    /\ outcome = "timeout"
    /\ proc = "daemon"
    /\ Starts = <<"start">>

\* the step of stop that probes the process
ProbesProcess == stopPc = "poll" /\ Len(Probes') = Len(Probes) + 1

\* C26: in the wait loop of stop, any OS error of the liveness probe, a
\* permission error as well as 'no such process', ends the wait at once with
\* the outcome dead; at the signal send an error other than 'no such
\* process' is raised instead.
C26_AnyProbeErrorIsDead ==
    [][/\ ProbesProcess =>
              /\ KillErrno(proc) # 0 =>
                     /\ stopPc' = "done" /\ outcome' = "dead"
                     /\ Probes'[Len(Probes')] = "kill 0: OSError"
              /\ KillErrno(proc) = 0 => stopPc' = "sleep" /\ outcome' = ""
       /\ (SendsSignal /\ KillErrno(proc) \notin {0, 3}) =>
              stopPc' = "done" /\ outcome' = "OSError"]_vars

\* the wait has ended as dead on a probe of a pid that now belongs to a
\* process of another user
C26_Witness ==
    /\ stopPc = "done" /\ outcome = "dead"
    /\ proc = "foreign"
    /\ Probes[Len(Probes)] = "kill 0: OSError"

(***************************************************************************)
(* The class attribute optParameters and the order of buildbotOptions      *)
(***************************************************************************)

\* the constructor of OptionsWithOptionsFile has finished
Constructed == optPc \in {"parse", "done", "raised"}

\* the options that buildbotOptions feeds from the options file
PatchedOptions(cls) ==
    {BuildbotOptions(cls)[i][2] : i \in DOMAIN BuildbotOptions(cls)}

\* C27: once the constructor has finished, by returning or by raising (from
\* loadOptionsFile or from the parent constructor), the class attribute
\* optParameters equals the compiled-in defaults; an instance built with no
\* options file and no arguments has the compiled-in defaults, whatever the
\* options file of an instance built before it.
C27_ClassAttributeRestored ==
    /\ Constructed => classOptParameters = OptParameters(optCls)
    /\ (optfile = <<>> /\ argv = <<>> /\ optPc \in {"inited", "parse", "done"}) =>
           \A o \in PatchedOptions(optCls) : opts[o] = CompiledDefault(optCls, o)

\* the options fed by two options-file names, as <<class, the name listed
\* first, the name listed later, option>>
DoublyMapped ==
    {<<"TryOptions", "try_master", "try_masterstatus", "master">>,
     <<"TryOptions", "try_jobdir", "try_dir", "jobdir">>,
     <<"TryOptions", "try_passwd", "try_password", "passwd">>,
     <<"UserOptions", "master", "user_master", "master">>}

\* the default of option o in the rows of optParameters
DefaultIn(op, o) == op[CHOOSE i \in DOMAIN op : op[i][1] = o][2]

\* C28: when two buildbotOptions pairs map different options-file names to
\* the same option and the options file defines both, the value of the pair
\* listed later is the resolved default: try_masterstatus, try_dir and
\* try_password win over try_master, try_jobdir and try_passwd, and
\* user_master wins over master.
C28_LaterPairWins ==
    /\ \A d \in DoublyMapped :
           (optCls = d[1] /\ d[2] \in DOMAIN optfile /\ d[3] \in DOMAIN optfile) =>
               /\ optPc \in {"patched", "inited"} =>
                      DefaultIn(classOptParameters, d[4]) = optfile[d[3]]
               /\ optPc = "inited" => opts[d[4]] = optfile[d[3]]
    /\ optPc \in {"patched", "inited"} =>
           \A i, j \in DOMAIN BuildbotOptions(optCls) :
               (/\ i < j
                /\ BuildbotOptions(optCls)[i][2] = BuildbotOptions(optCls)[j][2]
                /\ BuildbotOptions(optCls)[i][1] \in DOMAIN optfile
                /\ BuildbotOptions(optCls)[j][1] \in DOMAIN optfile
                /\ \A k \in DOMAIN BuildbotOptions(optCls) :
                       (k > j /\ BuildbotOptions(optCls)[k][2]
                                     = BuildbotOptions(optCls)[j][2])
                           => BuildbotOptions(optCls)[k][1] \notin DOMAIN optfile)
                   => DefaultIn(classOptParameters, BuildbotOptions(optCls)[j][2])
                          = optfile[BuildbotOptions(optCls)[j][1]]

\* a TryOptions instance has taken try_masterstatus's value as the default
\* of master, from an options file that also defines try_master
C28_Witness ==
    /\ optCls = "TryOptions" /\ optPc = "inited"
    /\ DOMAIN optfile = {"try_master", "try_masterstatus"}
    /\ optfile["try_master"] = "r1" /\ optfile["try_masterstatus"] = "r2"
    /\ opts["master"] = "r2"

====
